---- MODULE Spec2Model ----
(***************************************************************************)
(* A model of the Smart Travel Planning Assistant's four MCP servers       *)
(* (travel-orchestrator, weather-server, currency-server,                  *)
(* translation-server).  One server process handles one tool call at a     *)
(* time: the dispatcher receives a call, the handler runs to its awaits,   *)
(* the awaited work settles, and the call ends in an outcome.              *)
(*                                                                         *)
(* JavaScript values:                                                      *)
(*   - an object is a record; an absent (undefined) field is a field that  *)
(*     is not in the record's DOMAIN;                                      *)
(*   - a number that may be NaN is a record [nan, v] (JSON.stringify       *)
(*     renders a NaN as null);                                             *)
(*   - Math.random() is a draw r in 0..RandomSteps-1 standing for          *)
(*     r/RandomSteps; a handler that draws many times takes its draws      *)
(*     from a stream of period DrawPeriod;                                 *)
(*   - Date.getTime() is counted in hours since 2024-06-01T00:00Z; a date  *)
(*     string without a zone is read in the time zone of the server;       *)
(*   - floating-point sums are exact sums with a rounding error of         *)
(*     unknown sign.                                                       *)
(***************************************************************************)
EXTENDS Integers, Sequences, FiniteSets, TLC

\* ------------------------------------------------------------------ bounds
\* date strings range over the first MaxDay days of June 2024
MaxDay == 3
\* travelers ranges over 0..MaxTravelers
MaxTravelers == 2
\* a destinations list holds at most MaxDests entries
MaxDests == 3
\* a destinations list of get_travel_budget_conversion holds at most
\* MaxBudgetDests entries
MaxBudgetDests == 2
\* resolution of Math.random()
RandomSteps == 2

VARIABLES
    server,    \* which server process this is
    mcpServers,\* Object.keys of the web server's registry of sub-processes
    apiKey,    \* whether the process' API credential is set in its environment
    pc,        \* "idle" | "running" | "done"
    tool,      \* name of the tool call being handled
    args,      \* request.params.arguments
    step,      \* position of the handler in its sequence of awaits
    locals,    \* the handler's local constants assigned so far
    slots,     \* the per-destination promises handed to Promise.all
    outcome,   \* how the call ended
    upstream,  \* HTTP requests sent to the third-party service by this call
    lookups,   \* the lookups planTrip or getTravelInsights has started, in order
    arrival    \* the requests of the call (the branches of Promise.all) in
               \* the order they settled, each with the response it got

vars ==
    <<server, mcpServers, apiKey, pc, tool, args, step, locals, slots, outcome,
      upstream, lookups, arrival>>

\* ------------------------------------------------------------ JS numbers
NaN == [nan |-> TRUE, v |-> 0]
N(i) == [nan |-> FALSE, v |-> i]
NumAdd(a, b) == IF a.nan \/ b.nan THEN NaN ELSE N(a.v + b.v)
NumSub(a, b) == IF a.nan \/ b.nan THEN NaN ELSE N(a.v - b.v)
NumMul(a, b) == IF a.nan \/ b.nan THEN NaN ELSE N(a.v * b.v)
\* (mutant of NumGE) a > b
NumGT(a, b) == ~a.nan /\ ~b.nan /\ a.v > b.v
\* a >= b: every comparison with NaN is false
NumGE(a, b) == ~a.nan /\ ~b.nan /\ a.v >= b.v
\* Math.ceil(a / d) for d > 0
NumCeilDiv(a, d) == IF a.nan THEN NaN ELSE N(-((-a.v) \div d))

\* floor(Math.random() * k) for the draw r
RandomInt(r, k) == (r * k) \div RandomSteps
Draws == 0..(RandomSteps - 1)
\* the least and the greatest draw
EndDraws == {0, RandomSteps - 1}

\* ---------------------------------------------------------------- objects
Empty == <<>>
Has(o, f) == f \in DOMAIN o
\* the records {} and {f: v} for v in S
Opt(f, S) == {Empty} \cup {f :> v : v \in S}
Range(s) == {s[i] : i \in DOMAIN s}

\* ------------------------------------------------------------------ dates
HoursPerDay == 24
DayString(d) == "2024-06-0" \o ToString(d)
NoonString(d) == DayString(d) \o "T12:00:00Z"
DateStrings ==
    {DayString(d) : d \in 1..MaxDay} \cup {NoonString(d) : d \in 1..MaxDay}
        \cup {"not-a-date"}
\* new Date(s).getTime(): the time of a date string, NaN for an unparsable one
DateParse(s) ==
    IF \E d \in 1..MaxDay : s = DayString(d)
    THEN N(HoursPerDay * ((CHOOSE d \in 1..MaxDay : s = DayString(d)) - 1))
    ELSE IF \E d \in 1..MaxDay : s = NoonString(d)
    THEN N(HoursPerDay * ((CHOOSE d \in 1..MaxDay : s = NoonString(d)) - 1) + 12)
    ELSE NaN
\* new Date(o[f]): new Date(undefined) is an Invalid Date
NewDate(o, f) == IF Has(o, f) THEN DateParse(o[f]) ELSE NaN

\* the time zones a server may run in
Zones == {"UTC", "America/New_York", "Asia/Tokyo"}
\* the hours to add to local time to get UTC, on a local day counted from
\* 2023-01-01: New York is on daylight time from 2024-03-10 to 2024-11-03
UtcOffset(zone, localDay) ==
    IF zone = "UTC" THEN 0
    ELSE IF zone = "Asia/Tokyo" THEN -9
    ELSE IF localDay >= 434 /\ localDay < 672 THEN 4 ELSE 5
\* the local day 2024-06-01
FirstOfJune == 517
\* dt_txt of the forecast item of day d: a date and a time without a zone
ForecastTime(d) == DayString(d) \o " 12:00:00"
\* new Date(s).getTime() in a server of that zone: a string without a zone
\* that has a time of day is read as local time
DateParseLocal(s, zone) ==
    IF \E d \in 1..MaxDay : s = ForecastTime(d)
    THEN LET d == CHOOSE d \in 1..MaxDay : s = ForecastTime(d)
         IN N(HoursPerDay * (d - 1) + 12 + UtcOffset(zone, FirstOfJune + d - 1))
    ELSE DateParse(s)
\* s.split(' ')[0]
BeforeSpace(s) ==
    IF \E d \in 1..MaxDay : s = ForecastTime(d)
    THEN DayString(CHOOSE d \in 1..MaxDay : s = ForecastTime(d))
    ELSE s

\* the draws of one tool call are independent of each other; they are taken
\* from EndDraws and repeat with period DrawPeriod
DrawPeriod == 4
DrawStreams == [0..(DrawPeriod - 1) -> EndDraws]
\* the value of the (j+1)-th Math.random() of the call
Random(d, j) == d[j % DrawPeriod]

\* ------------------------------------------------------------- outcomes
NoOutcome == [kind |-> "none"]
Result(v) == [kind |-> "result", value |-> v]
\* a thrown McpError(code, message)
McpError(code, msg) == [kind |-> "McpError", code |-> code, message |-> msg]
\* a thrown TypeError (a method call on a value that has no such method)
TypeError(msg) == [kind |-> "TypeError", message |-> msg]
\* the dispatcher's { content, isError: true }
SoftError(msg) == [kind |-> "softError", message |-> msg]
\* a thrown AxiosError e, as axios raises it
AxiosError(e) == [kind |-> "AxiosError", error |-> e]

\* error.response?.data.message ?? error.message
UpstreamMessage(e) ==
    IF Has(e, "response") /\ Has(e.response.data, "message")
    THEN e.response.data.message ELSE e.message

\* (mutant of Rewrap) the handler lets the AxiosError through
Rethrow(prefix, e) == AxiosError(e)
\* the catch of a handler: an AxiosError is thrown again as an McpError
Rewrap(prefix, e) == McpError("InternalError", prefix \o UpstreamMessage(e))

\* ============================================================ orchestrator
Dests == {"Tokyo", "Atlantis", "Bangkok"}

\* a JS value given for an activity-type list: an array of strings, or the
\* number 5 (v then holds its digits)
ActivityTypeValues ==
    {[t |-> "array", v |-> <<>>],
     [t |-> "array", v |-> <<"culinary">>],
     [t |-> "array", v |-> <<"adventure", "sightseeing">>],
     [t |-> "array", v |-> <<"relaxation">>],
     [t |-> "number", v |-> <<"5">>]}

PreferencesValues == Opt("activityTypes", ActivityTypeValues)

PlanTripArgs ==
    {d @@ s @@ e @@ t @@ p :
        d \in Opt("destination", Dests),
        s \in Opt("startDate", DateStrings),
        e \in Opt("endDate", DateStrings),
        t \in Opt("travelers", 0..MaxTravelers),
        p \in Opt("preferences", PreferencesValues)}

\* const { ..., travelers = 1, preferences = {} } = args
Travelers(a) == IF Has(a, "travelers") THEN a.travelers ELSE 1
Preferences(a) == IF Has(a, "preferences") THEN a.preferences ELSE Empty

\* x || dflt for a string field: undefined and "" are falsy
OrElse(o, f, dflt) == IF Has(o, f) /\ o[f] # "" THEN o[f] ELSE dflt

getWeatherForecast(a) ==
    [current |-> [temp |-> 22, conditions |-> "Sunny", humidity |-> 65],
     forecast |->
        <<[date |-> OrElse(a, "startDate", "2024-01-01"), temp |-> 20,
           conditions |-> "Partly Cloudy"],
          [date |-> OrElse(a, "endDate", "2024-01-07"), temp |-> 25,
           conditions |-> "Clear"]>>]

searchFlights(a, travelers) ==
    <<[airline |-> "Example Airlines", flightNumber |-> "EX123",
       price |-> 450 * travelers, duration |-> "3h 30m"],
      [airline |-> "Sample Airways", flightNumber |-> "SA456",
       price |-> 420 * travelers, duration |-> "3h 15m"]>>

Nights(a) ==
    NumCeilDiv(NumSub(NewDate(a, "endDate"), NewDate(a, "startDate")), HoursPerDay)

searchHotels(a, accommodationType) ==
    LET nights == Nights(a) IN
    <<[name |-> "Grand Hotel Example", type |-> accommodationType, rating |-> 45,
       pricePerNight |-> 150, totalPrice |-> NumMul(N(150), nights)],
      [name |-> "Cozy Boutique Stay", type |-> accommodationType, rating |-> 42,
       pricePerNight |-> 120, totalPrice |-> NumMul(N(120), nights)]>>

\* (mutant of AllActivities) the list has a fourth activity
AllActivitiesAndCruise ==
    <<[name |-> "City Walking Tour", type |-> "sightseeing", price |-> 25],
      [name |-> "Local Food Experience", type |-> "culinary", price |-> 60],
      [name |-> "Adventure Park", type |-> "adventure", price |-> 45],
      [name |-> "River Cruise", type |-> "sightseeing", price |-> 30]>>
AllActivities ==
    <<[name |-> "City Walking Tour", type |-> "sightseeing", price |-> 25],
      [name |-> "Local Food Experience", type |-> "culinary", price |-> 60],
      [name |-> "Adventure Park", type |-> "adventure", price |-> 45]>>

\* the filter callback throws when activityTypes is truthy, its length is not 0
\* and it has no includes method
getActivitiesThrows(o, f) == Has(o, f) /\ o[f].t # "array"

\* (mutant of FilterActivities) the activities kept come out last first
RECURSIVE FilterActivitiesReversed(_, _)
FilterActivitiesReversed(s, types) ==
    IF s = <<>> THEN <<>>
    ELSE IF Head(s).type \in types
         THEN FilterActivitiesReversed(Tail(s), types) \o <<Head(s)>>
         ELSE FilterActivitiesReversed(Tail(s), types)

RECURSIVE FilterActivities(_, _)
FilterActivities(s, types) ==
    IF s = <<>> THEN <<>>
    ELSE IF Head(s).type \in types
         THEN <<Head(s)>> \o FilterActivities(Tail(s), types)
         ELSE FilterActivities(Tail(s), types)

\* getActivities(destination, o[f]) where it does not throw
getActivities(o, f) ==
    IF ~Has(o, f) \/ Len(o[f].v) = 0 THEN AllActivities
    ELSE FilterActivities(AllActivities, Range(o[f].v))

\* currencyMap[destination] || 'USD', for a destination that names no member
\* inherited from Object.prototype
getCurrencyInfo(a) ==
    IF ~Has(a, "destination") THEN "USD"
    ELSE CASE a.destination = "Paris" -> "EUR"
           [] a.destination = "London" -> "GBP"
           [] a.destination = "Tokyo" -> "JPY"
           [] a.destination = "New York" -> "USD"
           [] a.destination = "Sydney" -> "AUD"
           [] OTHER -> "USD"

getLanguageInfo(a) ==
    IF ~Has(a, "destination") THEN "Local Language"
    ELSE CASE a.destination = "Paris" -> "French"
           [] a.destination = "London" -> "English"
           [] a.destination = "Tokyo" -> "Japanese"
           [] a.destination = "New York" -> "English"
           [] a.destination = "Sydney" -> "English"
           [] OTHER -> "Local Language"

getSafetyRating(r) == RandomInt(r, 2) + 4

RECURSIVE SumPrices(_)
SumPrices(s) == IF s = <<>> THEN 0 ELSE Head(s).price + SumPrices(Tail(s))
RECURSIVE SumTotalPrices(_)
SumTotalPrices(s) ==
    IF s = <<>> THEN N(0) ELSE NumAdd(Head(s).totalPrice, SumTotalPrices(Tail(s)))

\* (mutant of calculateTotalCost) the activity cost is not multiplied by travelers
calculateTotalCostPerGroup(flights, hotels, activities, travelers) ==
    NumAdd(NumAdd(N(SumPrices(flights)), SumTotalPrices(hotels)), N(SumPrices(activities)))

calculateTotalCost(flights, hotels, activities, travelers) ==
    LET flightCost == SumPrices(flights)
        hotelCost == SumTotalPrices(hotels)
        activityCost == SumPrices(activities) * travelers
    IN NumAdd(NumAdd(N(flightCost), hotelCost), N(activityCost))

\* the lookups of planTrip, in the order of its awaits
PlanLookups ==
    <<"getWeatherForecast", "searchFlights", "searchHotels", "getActivities",
      "getCurrencyInfo", "getLanguageInfo", "getSafetyRating">>

Idle == pc = "idle"

\* the text the dispatcher of each server puts before the message
DispatcherPrefix ==
    CASE server = "orchestrator" -> "Travel API error: "
      [] server = "weather" -> "Weather API error: "
      [] server = "currency" -> "Currency API error: "
      [] server = "translation" -> "Translation API error: "
\* the catch of the dispatcher around the handler: an AxiosError that reaches
\* it becomes { content, isError: true }, anything else is thrown on
Dispatch(o) ==
    IF o.kind = "AxiosError"
    THEN SoftError(DispatcherPrefix \o UpstreamMessage(o.error))
    ELSE o

\* a call ends: its outcome is set and nothing of it stays pending
Finish(o) ==
    /\ pc' = "done"
    /\ outcome' = Dispatch(o)

\* a tool name the switch of the dispatcher does not know
CallUnknownTool ==
    /\ Idle
    /\ tool' = "unknown_tool"
    /\ args' = Empty
    /\ Finish(McpError("MethodNotFound", "Unknown tool: unknown_tool"))
    /\ UNCHANGED <<server, mcpServers, apiKey, step, locals, slots, upstream, lookups, arrival>>

\* planTrip up to its first await: the validation, then getWeatherForecast starts
CallPlanTrip ==
    /\ Idle /\ server = "orchestrator"
    /\ \E a \in PlanTripArgs :
        /\ tool' = "plan_trip"
        /\ args' = a
        /\ IF NumGE(NewDate(a, "startDate"), NewDate(a, "endDate"))
           THEN /\ Finish(McpError("InvalidParams", "End date must be after start date"))
                /\ UNCHANGED <<step, lookups>>
           ELSE /\ pc' = "running"
                /\ step' = 1
                /\ lookups' = <<PlanLookups[1]>>
                /\ UNCHANGED outcome
    /\ UNCHANGED <<server, mcpServers, apiKey, locals, slots, upstream, arrival>>

\* the value the awaited lookup of planTrip resolves to
PlanLookupValue(k, a, r) ==
    CASE k = 1 -> getWeatherForecast(a)
      [] k = 2 -> searchFlights(a, Travelers(a))
      [] k = 3 -> searchHotels(a, OrElse(Preferences(a), "accommodationType", "hotel"))
      [] k = 4 -> getActivities(Preferences(a), "activityTypes")
      [] k = 5 -> getCurrencyInfo(a)
      [] k = 6 -> getLanguageInfo(a)
      [] k = 7 -> getSafetyRating(r)

PlanLocalNames ==
    <<"weather", "flights", "hotels", "activities", "currency", "language",
      "safetyRating">>

\* planTrip resumes after an await: the lookup's value is bound, and the next
\* lookup starts or the plan is assembled and returned
PlanTripResume ==
    /\ pc = "running" /\ tool = "plan_trip"
    /\ \E r \in (IF step = 7 THEN Draws ELSE {0}) :
        IF step = 4 /\ getActivitiesThrows(Preferences(args), "activityTypes")
        THEN /\ Finish(TypeError("activityTypes.includes is not a function"))
             /\ UNCHANGED <<step, locals, lookups>>
        ELSE LET l == (PlanLocalNames[step] :> PlanLookupValue(step, args, r)) @@ locals IN
             /\ locals' = l
             /\ IF step < 7
                THEN /\ step' = step + 1
                     /\ lookups' = Append(lookups, PlanLookups[step + 1])
                     /\ UNCHANGED <<pc, outcome>>
                ELSE /\ Finish(Result(
                            [totalCost |-> calculateTotalCost(l.flights, l.hotels,
                                               l.activities, Travelers(args))]
                            @@ l
                            @@ (IF Has(args, "destination")
                                THEN [destination |-> args.destination] ELSE Empty)))
                     /\ UNCHANGED <<step, lookups>>
    /\ UNCHANGED <<server, mcpServers, apiKey, tool, args, slots, upstream, arrival>>

\* --------------------------------------------------------- getTravelInsights
InsightsArgs ==
    {d @@ t :
        d \in Opt("destination", {"Paris", "Tokyo"}),
        t \in Opt("travelDate", {DayString(1), ""})}

\* the arguments getTravelInsights passes to getWeatherForecast(destination,
\* travelDate): travelDate is its startDate and it is given no endDate
OutlookArgs(a) ==
    IF Has(a, "travelDate") THEN [startDate |-> a.travelDate] ELSE Empty

getBestTimeToVisit == "Spring (March-May) and Fall (September-November)"

\* the date of an event is travelDate; JSON.stringify leaves the field out
\* when travelDate is undefined
getLocalEvents(a) ==
    LET date == IF Has(a, "travelDate") THEN [date |-> a.travelDate] ELSE Empty IN
    <<[name |-> "Local Festival",
       description |-> "Traditional cultural festival"] @@ date,
      [name |-> "Food Market",
       description |-> "Weekly local food market"] @@ date>>

getCulturalTips ==
    [greeting |-> "Learn basic local greetings",
     tipping |-> "Check local tipping customs",
     dressCode |-> "Respect local dress codes for religious sites"]

getVisaRequirements == "Check with local embassy for visa requirements"

getVaccinationRequirements == "Consult travel clinic for recommended vaccinations"

\* the lookups getTravelInsights awaits, in the order of its object literal,
\* and the fields of insights their values are bound to
InsightsLookups ==
    <<"getBestTimeToVisit", "getWeatherForecast", "getLocalEvents",
      "getCulturalTips", "getVisaRequirements", "getVaccinationRequirements">>

InsightsNames ==
    <<"bestTimeToVisit", "weatherOutlook", "localEvents", "culturalTips",
      "visaRequirements", "vaccinationRequirements">>

\* the value the awaited lookup of getTravelInsights resolves to
InsightsLookupValue(k, a) ==
    CASE k = 1 -> getBestTimeToVisit
      [] k = 2 -> getWeatherForecast(OutlookArgs(a))
      [] k = 3 -> getLocalEvents(a)
      [] k = 4 -> getCulturalTips
      [] k = 5 -> getVisaRequirements
      [] k = 6 -> getVaccinationRequirements

\* the insights the handler returns as JSON text, given the values l of the
\* lookups: the field destination is left out when it is undefined
Insights(a, l) ==
    Result((IF Has(a, "destination") THEN [destination |-> a.destination] ELSE Empty)
           @@ l)

\* getTravelInsights up to its first await: getBestTimeToVisit starts
CallGetTravelInsights ==
    /\ Idle /\ server = "orchestrator"
    /\ \E a \in InsightsArgs :
        /\ tool' = "get_travel_insights"
        /\ args' = a
    /\ pc' = "running"
    /\ step' = 1
    /\ lookups' = <<InsightsLookups[1]>>
    /\ UNCHANGED <<server, mcpServers, apiKey, locals, slots, outcome, upstream, arrival>>

\* getTravelInsights resumes after an await: the lookup's value is bound, and
\* the next lookup starts or the insights are returned
TravelInsightsResume ==
    /\ pc = "running" /\ tool = "get_travel_insights"
    /\ LET l == (InsightsNames[step] :> InsightsLookupValue(step, args)) @@ locals IN
       /\ locals' = l
       /\ IF step < Len(InsightsLookups)
          THEN /\ step' = step + 1
               /\ lookups' = Append(lookups, InsightsLookups[step + 1])
               /\ UNCHANGED <<pc, outcome>>
          ELSE /\ Finish(Insights(args, l))
               /\ UNCHANGED <<step, lookups>>
    /\ UNCHANGED <<server, mcpServers, apiKey, tool, args, slots, upstream, arrival>>

\* ------------------------------------------------------- compareDestinations
\* the characters of the strings the scoring reads
Chars(s) ==
    CASE s = "Sunny" -> <<"S", "u", "n", "n", "y">>
      [] s = "SUN" -> <<"S", "U", "N">>
      [] s = "sunny" -> <<"s", "u", "n", "n", "y">>
      [] s = "rain" -> <<"r", "a", "i", "n">>
      [] s = "sunny skies" -> <<"s", "u", "n", "n", "y", " ", "s", "k", "i", "e", "s">>
      [] s = "" -> <<>>

\* String.prototype.toLowerCase
ToLowerChar(c) ==
    CASE c = "S" -> "s" [] c = "U" -> "u" [] c = "N" -> "n" [] c = "Y" -> "y"
      [] OTHER -> c
ToLowerCase(cs) == [i \in DOMAIN cs |-> ToLowerChar(cs[i])]

\* String.prototype.includes: needle occurs in hay as a substring
Includes(hay, needle) ==
    \E i \in 0..(Len(hay) - Len(needle)) : SubSeq(hay, i + 1, i + Len(needle)) = needle

\* a JS value given for criteria.weather: a string, or the number 5
WeatherPrefValues ==
    {[t |-> "string", v |-> "SUN"],
     [t |-> "string", v |-> "sunny"],
     [t |-> "string", v |-> "rain"],
     [t |-> "string", v |-> "sunny skies"],
     [t |-> "string", v |-> ""],
     [t |-> "number", v |-> "5"]}

\* criteria.weather is truthy
HasWeatherPref(criteria) == Has(criteria, "weather") /\ criteria.weather.v # ""

\* criteria.weather.toLowerCase is not a function
calculateOverallScoreThrows(criteria) ==
    HasWeatherPref(criteria) /\ criteria.weather.t # "string"

Min(a, b) == IF a <= b THEN a ELSE b
Max(a, b) == IF a >= b THEN a ELSE b

\* Math.round of t tenths, t >= 0: halves round up
RoundTenths(t) == (t + 5) \div 10

\* (mutant of WeatherScore) the preference is looked up as it is written
WeatherScoreCaseSensitive(conditions, criteria) ==
    IF HasWeatherPref(criteria)
       /\ Includes(Chars(conditions), Chars(criteria.weather.v))
    THEN 300 ELSE 200
\* the parts of the score, in tenths of a point
WeatherScore(conditions, criteria) ==
    IF HasWeatherPref(criteria)
       /\ Includes(ToLowerCase(Chars(conditions)), ToLowerCase(Chars(criteria.weather.v)))
    THEN 300 ELSE 200
\* (mutant of CostScore) the cost part is not floored at 0
CostScoreUnfloored(hotelCost) == 250 - hotelCost
CostScore(hotelCost) == Max(0, 250 - hotelCost)
\* safety2 is the safety rating in halves: (safety / 5) * 25 points
SafetyScore(safety2) == 25 * safety2
\* (mutant of ActivitiesScore) the activities part is not capped
ActivitiesScoreUncapped(n) == n * 50
\* (mutant of ActivitiesScore) the activities part saturates at three
ActivitiesScoreCappedAtThree(n) == Min(n * 50, 150)
ActivitiesScore(n) == Min(n * 50, 200)

\* calculateOverallScore where it does not throw; n is activities.length
calculateOverallScore(weather, hotelCost, safety2, n, criteria) ==
    RoundTenths(WeatherScore(weather.current.conditions, criteria)
                + CostScore(hotelCost) + SafetyScore(safety2) + ActivitiesScore(n))

getAverageHotelCost(r) == RandomInt(r, 100) + 100

\* (mutant of Comparator) ascending
ComparatorAscending(a, b) == a.overallScore - b.overallScore
\* (a, b) => b.overallScore - a.overallScore
Comparator(a, b) == b.overallScore - a.overallScore

\* (mutant of SortInsert) an unstable sort: x goes before the entries it ties with
RECURSIVE SortInsertUnstable(_, _)
SortInsertUnstable(sorted, x) ==
    IF sorted = <<>> THEN <<x>>
    ELSE IF Comparator(Head(sorted), x) < 0
         THEN <<Head(sorted)>> \o SortInsertUnstable(Tail(sorted), x)
         ELSE <<x>> \o sorted
\* Array.prototype.sort is stable: x goes after every entry that does not
\* compare greater than it
RECURSIVE SortInsert(_, _)
SortInsert(sorted, x) ==
    IF sorted = <<>> THEN <<x>>
    ELSE IF Comparator(Head(sorted), x) <= 0
         THEN <<Head(sorted)>> \o SortInsert(Tail(sorted), x)
         ELSE <<x>> \o sorted
RECURSIVE SortFrom(_, _)
SortFrom(sorted, rest) ==
    IF rest = <<>> THEN sorted
    ELSE SortFrom(SortInsert(sorted, Head(rest)), Tail(rest))
Sort(s) == SortFrom(<<>>, s)

\* ------------------------------------------------------------ Promise.all
Pending == [st |-> "pending"]
Fulfilled(v) == [st |-> "fulfilled", v |-> v]
\* (mutant of Fulfil) the values are kept in the order the promises settle in
RECURSIVE FulfilNextFree(_, _, _)
FulfilNextFree(ss, i, v) ==
    IF ss = <<>> THEN <<>>
    ELSE IF Head(ss).st = "pending" THEN <<Fulfilled(v)>> \o Tail(ss)
    ELSE <<Head(ss)>> \o FulfilNextFree(Tail(ss), i, v)
\* Promise.all keeps each value at the index of its promise
Fulfil(ss, i, v) == [ss EXCEPT ![i] = Fulfilled(v)]
AllFulfilled(ss) == \A i \in DOMAIN ss : ss[i].st = "fulfilled"
\* branch i has been started and has not settled
Unsettled(i) == i \in DOMAIN slots /\ \A k \in DOMAIN arrival : arrival[k].i # i
AllSettled == Len(arrival) = Len(slots)
\* branch i settled, having got the response resp
Arrived(i, resp) == [i |-> i, resp |-> resp]
NoResponse == [kind |-> "none"]
\* (mutant of Values) the value of the last promise is left out
ValuesWithoutLast(ss) == [i \in 1..(Len(ss) - 1) |-> ss[i].v]
\* the array Promise.all resolves to
Values(ss) == [i \in DOMAIN ss |-> ss[i].v]

DestNames == <<"Paris", "Tokyo", "Atlantis", "Sydney", "London">>
CompareDestLists == {SubSeq(DestNames, 1, n) : n \in 0..MaxDests}

CriteriaValues ==
    {Empty,
     [weather |-> [t |-> "string", v |-> "SUN"]],
     [weather |-> [t |-> "string", v |-> "rain"],
      activities |-> [t |-> "array", v |-> <<"culinary">>]],
     [activities |-> [t |-> "array", v |-> <<"relaxation">>]],
     [weather |-> [t |-> "number", v |-> "5"]],
     [activities |-> [t |-> "number", v |-> <<"5">>]]}

CompareArgs ==
    {d @@ c : d \in Opt("destinations", CompareDestLists),
              c \in Opt("criteria", CriteriaValues)}

Criteria(a) == IF Has(a, "criteria") THEN a.criteria ELSE Empty

\* the entry one destination's branch returns, for the hotel cost and the
\* safety rating its lookups gave
ComparisonEntry(dest, criteria, avgHotelCost, safety) ==
    LET weather == getWeatherForecast(Empty)
        activities == getActivities(criteria, "activities")
    IN [destination |-> dest,
        weather |-> weather.current,
        averageHotelCost |-> avgHotelCost,
        safetyRating |-> safety,
        activityScore |-> Len(activities),
        overallScore |-> calculateOverallScore(weather, avgHotelCost, 2 * safety,
                                               Len(activities), criteria)]
\* the entry one destination's branch returns, for the draws rc and rs
Comparison(dest, criteria, rc, rs) ==
    ComparisonEntry(dest, criteria, getAverageHotelCost(rc), getSafetyRating(rs))

\* the branches of compareDestinations(a) when map has returned: each has
\* called getWeatherForecast and waits at its first await
BranchesStarted(a) == [i \in 1..Len(a.destinations) |-> [at |-> 1]]
\* the draws the lookup called on resuming the branch b may make: the second
\* await is of getAverageHotelCost and the third of getSafetyRating, which
\* draw in their call, getActivities draws nothing
BranchDraws(b) == IF b.at = 3 THEN {0} ELSE EndDraws
\* the branch b after resuming from its await b.at with the draw r
BranchResumed(b, r) ==
    CASE b.at = 1 -> [at |-> 2, rc |-> r]
      [] b.at = 2 -> [at |-> 3, rc |-> b.rc, rs |-> r]
      [] b.at = 3 -> [at |-> 4, rc |-> b.rc, rs |-> b.rs]

\* compareDestinations up to its await of Promise.all: one branch per destination
CallCompareDestinations ==
    /\ Idle /\ server = "orchestrator"
    /\ \E a \in CompareArgs :
        /\ tool' = "compare_destinations"
        /\ args' = a
        /\ IF ~Has(a, "destinations")
           THEN /\ Finish(TypeError("Cannot read properties of undefined (reading 'map')"))
                /\ UNCHANGED <<slots, locals>>
           ELSE /\ pc' = "running"
                /\ slots' = [i \in 1..Len(a.destinations) |-> Pending]
                /\ locals' = [branches |-> BranchesStarted(a)]
                /\ UNCHANGED outcome
    /\ UNCHANGED <<server, mcpServers, apiKey, step, upstream, lookups, arrival>>

\* the branch of destination i resumes after one of its first three awaits:
\* the value awaited is bound and the next lookup is called, which draws its
\* Math.random() in the call.  A branch goes on when another has rejected
\* Promise.all and the call has ended.
CompareBranchResume(i) ==
    /\ pc \in {"running", "done"} /\ tool = "compare_destinations"
    /\ Unsettled(i)
    /\ locals.branches[i].at < 4
    /\ \E r \in BranchDraws(locals.branches[i]) :
        locals' = [branches |-> [locals.branches EXCEPT ![i] = BranchResumed(@, r)]]
    /\ UNCHANGED <<server, mcpServers, apiKey, pc, tool, args, step, slots, outcome, upstream, lookups, arrival>>

\* the callback of a branch throws when it resumes after its last await: the
\* rejection of getActivities, or calculateOverallScore
CompareThrows(a) ==
    getActivitiesThrows(Criteria(a), "activities")
        \/ calculateOverallScoreThrows(Criteria(a))
CompareThrown(a) ==
    IF getActivitiesThrows(Criteria(a), "activities")
    THEN TypeError("activityTypes.includes is not a function")
    ELSE TypeError("criteria.weather.toLowerCase is not a function")

\* the branch of destination i resumes after its last await and runs to its
\* end: its entry fulfils promise i, or it throws, which rejects promise i
\* and leaves the call waiting for Promise.all
CompareBranchSettle(i) ==
    /\ pc \in {"running", "done"} /\ tool = "compare_destinations"
    /\ Unsettled(i)
    /\ locals.branches[i].at = 4
    /\ arrival' = Append(arrival, Arrived(i, NoResponse))
    /\ slots' = IF CompareThrows(args) THEN slots
                ELSE Fulfil(slots, i, Comparison(args.destinations[i], Criteria(args),
                                   locals.branches[i].rc, locals.branches[i].rs))
    /\ UNCHANGED <<server, mcpServers, apiKey, pc, tool, args, step, locals, outcome, upstream, lookups>>

\* a branch of the call has ended and its promise is still pending: it threw
BranchThrew(i) ==
    /\ i \in DOMAIN slots /\ slots[i] = Pending
    /\ \E k \in DOMAIN arrival : arrival[k].i = i

\* Promise.all has been rejected by the first branch that threw: the await of
\* compareDestinations throws what the branch threw and the call ends; the
\* branches that have not ended go on
CompareReject ==
    /\ pc = "running" /\ tool = "compare_destinations"
    /\ \E i \in DOMAIN slots : BranchThrew(i)
    /\ Finish(CompareThrown(args))
    /\ UNCHANGED <<server, mcpServers, apiKey, tool, args, step, locals, slots, upstream, lookups, arrival>>

\* Promise.all resolves: the entries are sorted and returned
CompareJoin ==
    /\ pc = "running" /\ tool = "compare_destinations"
    /\ AllSettled /\ AllFulfilled(slots)
    /\ Finish(Result(Sort(Values(slots))))
    /\ UNCHANGED <<server, mcpServers, apiKey, tool, args, step, locals, slots, upstream, lookups, arrival>>

\* ========================================================= upstream services
\* an AxiosError: a response with a status outside 2xx (its body may carry a
\* message), or no response at all
\* the servers whose axios instance is created with timeout: 10000
TimedServers == {"currency", "translation"}
\* the AxiosError of a request that got no response within the timeout
TimeoutError == [message |-> "timeout of 10000ms exceeded"]

AxiosErrors ==
    {[message |-> "Request failed with status code 404",
      response |-> [data |-> [message |-> "not found"]]],
     [message |-> "Request failed with status code 500",
      response |-> [data |-> Empty]],
     [message |-> "Network Error"]}
    \cup (IF server \in TimedServers THEN {TimeoutError} ELSE {})

Ok(data) == [kind |-> "ok", data |-> data]
Failed(e) == [kind |-> "error", error |-> e]
\* what an HTTP request may end in, for the bodies a 2xx response may have
Responses(bodies) == {Ok(d) : d \in bodies} \cup {Failed(e) : e \in AxiosErrors}

\* ============================================================ weather-server
\* bodies of GET /weather: a well-formed one, and one without the fields read
UpstreamWeather ==
    {[main |-> [temp |-> 18, humidity |-> 70],
      weather |-> <<[description |-> "light rain"]>>,
      wind |-> [speed |-> 4]],
     Empty}
WeatherWellFormed(data) ==
    Has(data, "main") /\ Has(data, "weather") /\ Has(data, "wind")

\* bodies of GET /forecast: one item at noon of each day, and one without a list
UpstreamForecast ==
    {[list |-> [d \in 1..MaxDay |->
                  [dt_txt |-> ForecastTime(d),
                   main |-> [temp |-> 15 + d],
                   weather |-> <<[description |-> "clear sky"]>>]]],
     Empty}

WeatherArgs ==
    {d @@ s @@ e :
        d \in Opt("destination", Dests),
        s \in Opt("startDate", DateStrings),
        e \in Opt("endDate", DateStrings)}

\* a string field that is neither undefined nor ""
Truthy(o, f) == Has(o, f) /\ o[f] # ""

mockConditions == <<"Sunny", "Partly Cloudy", "Cloudy", "Light Rain", "Clear">>

\* toISOString().split('T')[0] of the time h
IsoDate(h) == DayString(h \div HoursPerDay + 1)

\* the entries getMockWeatherData pushes for a[sf] and a[ef]
MockForecastLength(a, sf, ef) ==
    LET days == NumCeilDiv(NumSub(NewDate(a, ef), NewDate(a, sf)), HoursPerDay)
    IN IF Truthy(a, sf) /\ Truthy(a, ef) /\ ~days.nan /\ days.v >= 0
       THEN days.v + 1 ELSE 0
\* the Math.random() calls of one getMockWeatherData
MockDraws(a, sf, ef) == 4 + 2 * MockForecastLength(a, sf, ef)

\* getMockWeatherData(destination, a[sf], a[ef]) in a call that has made j0
\* draws of d before: the conditions and the base temperature are drawn
\* first, then the temperature and the conditions of each day, then the
\* humidity and the wind speed
getMockWeatherData(a, sf, ef, d, j0) ==
    LET randomCondition == mockConditions[RandomInt(Random(d, j0), 5) + 1]
        baseTemp == RandomInt(Random(d, j0 + 1), 15) + 15
        start == NewDate(a, sf)
        n == MockForecastLength(a, sf, ef)
        forecast ==
            [i \in 1..n |->
                [date |-> IsoDate(start.v + HoursPerDay * (i - 1)),
                 temp |-> baseTemp + RandomInt(Random(d, j0 + 2 * i), 10) - 5,
                 conditions |-> mockConditions[RandomInt(Random(d, j0 + 2 * i + 1), 5) + 1]]]
    IN [current |-> [temp |-> baseTemp, conditions |-> randomCondition,
                     humidity |-> RandomInt(Random(d, j0 + 2 * n + 2), 40) + 40,
                     windSpeed |-> RandomInt(Random(d, j0 + 2 * n + 3), 20) + 5],
        forecast |-> forecast]

RECURSIVE FilterForecast(_, _, _, _)
FilterForecast(list, start, end, zone) ==
    IF list = <<>> THEN <<>>
    ELSE LET item == Head(list)
             itemDate == DateParseLocal(item.dt_txt, zone)
             rest == FilterForecast(Tail(list), start, end, zone)
         IN IF NumGE(itemDate, start) /\ NumGE(end, itemDate)
            THEN <<[date |-> BeforeSpace(item.dt_txt), temp |-> item.main.temp,
                    conditions |-> item.weather[1].description]>> \o rest
            ELSE rest

\* processForecastData(data, startDate, endDate) in a server of that zone
processForecastData(data, a, zone) ==
    FilterForecast(data.list, NewDate(a, "startDate"), NewDate(a, "endDate"), zone)

\* the WeatherData getTravelWeather builds from the response of GET /weather
WeatherData(data, forecast) ==
    [temperature |-> data.main.temp,
     conditions |-> data.weather[1].description,
     humidity |-> data.main.humidity,
     windSpeed |-> data.wind.speed,
     forecast |-> forecast]

\* what getTravelWeather ends in, from the body of GET /weather and the
\* forecast given
TravelWeatherOutcome(data, forecast) ==
    IF WeatherWellFormed(data)
    THEN Result(WeatherData(data, forecast))
    ELSE TypeError("Cannot read properties of undefined (reading 'temp')")
\* what getTravelWeather ends in after the response of GET /forecast
TravelForecastOutcome(a, data, resp, zone) ==
    IF resp.kind = "error"
    THEN Rewrap("Weather API error: ", resp.error)
    ELSE IF ~Has(resp.data, "list")
    THEN TypeError("Cannot read properties of undefined (reading 'filter')")
    ELSE TravelWeatherOutcome(data, processForecastData(resp.data, a, zone))
FinishTravelWeather(data, forecast) == Finish(TravelWeatherOutcome(data, forecast))

\* getTravelWeather up to its first await: the mock data without API_KEY,
\* else GET /weather is sent
CallGetTravelWeather ==
    /\ Idle /\ server = "weather"
    /\ \E a \in WeatherArgs :
        /\ tool' = "get_travel_weather"
        /\ args' = a
        /\ IF ~apiKey
           THEN /\ \E d \in DrawStreams :
                     Finish(Result(getMockWeatherData(a, "startDate", "endDate", d, 0)))
                /\ UNCHANGED <<step, upstream>>
           ELSE /\ pc' = "running"
                /\ step' = 1
                /\ upstream' = upstream + 1
                /\ UNCHANGED outcome
    /\ UNCHANGED <<server, mcpServers, apiKey, locals, slots, lookups, arrival>>

\* the response of GET /weather arrives: GET /forecast is sent when both dates
\* are given, else the weather data is returned
TravelWeatherCurrent ==
    /\ pc = "running" /\ tool = "get_travel_weather" /\ step = 1
    /\ \E resp \in Responses(UpstreamWeather) :
        /\ arrival' = Append(arrival, Arrived(1, resp))
        /\ IF resp.kind = "error"
           THEN /\ Finish(Rewrap("Weather API error: ", resp.error))
                /\ UNCHANGED <<step, locals, upstream>>
           ELSE IF Truthy(args, "startDate") /\ Truthy(args, "endDate")
           THEN /\ locals' = [currentResponse |-> resp.data]
                /\ step' = 2
                /\ upstream' = upstream + 1
                /\ UNCHANGED <<pc, outcome>>
           ELSE /\ FinishTravelWeather(resp.data, <<>>)
                /\ UNCHANGED <<step, locals, upstream>>
    /\ UNCHANGED <<server, mcpServers, apiKey, tool, args, slots, lookups>>

\* the response of GET /forecast arrives; the server runs in one of Zones,
\* kept in locals
TravelWeatherForecast ==
    /\ pc = "running" /\ tool = "get_travel_weather" /\ step = 2
    /\ \E resp \in Responses(UpstreamForecast), zone \in Zones :
        /\ arrival' = Append(arrival, Arrived(2, resp))
        /\ locals' = [currentResponse |-> locals.currentResponse, zone |-> zone]
        /\ Finish(TravelForecastOutcome(args, locals.currentResponse, resp, zone))
    /\ UNCHANGED <<server, mcpServers, apiKey, tool, args, step, slots, upstream, lookups>>

\* getWeatherAlerts(a) in a server with or without API_KEY
getWeatherAlerts(a, key) ==
    Result([alerts |-> <<>>,
            message |-> IF ~key THEN "No active weather alerts"
                        ELSE "Weather alerts not available in free tier"])

\* getWeatherAlerts: a fixed answer with and without API_KEY, no request is sent
CallGetWeatherAlerts ==
    /\ Idle /\ server = "weather"
    /\ \E a \in Opt("destination", Dests) :
        /\ tool' = "get_weather_alerts"
        /\ args' = a
        /\ Finish(getWeatherAlerts(a, apiKey))
    /\ UNCHANGED <<server, mcpServers, apiKey, step, locals, slots, upstream, lookups, arrival>>

\* ------------------------------------------------- compareDestinationWeather
WeatherCompareArgs ==
    {d @@ t : d \in Opt("destinations", CompareDestLists),
              t \in Opt("date", {DayString(1), "not-a-date"})}

\* (mutant of Placeholder) the placeholder does not name its destination
PlaceholderUnnamed(dest, msg) == [error |-> msg]
\* { destination, error }
Placeholder(dest, msg) == [destination |-> dest, error |-> msg]

\* the entry of a destination from the current weather c
WeatherEntry(dest, c) ==
    [destination |-> dest, temperature |-> c.temperature, conditions |-> c.conditions,
     humidity |-> c.humidity, windSpeed |-> c.windSpeed]

\* the entry of destination i from the mock data: the branches run one after
\* the other in the call of map, each draws after the one before
MockWeatherEntry(a, i, d) ==
    LET mockData == getMockWeatherData(a, "date", "date", d,
                                       (i - 1) * MockDraws(a, "date", "date"))
    IN [destination |-> a.destinations[i],
        temperature |-> mockData.current.temp,
        conditions |-> mockData.current.conditions,
        humidity |-> mockData.current.humidity,
        windSpeed |-> mockData.current.windSpeed]

\* compareDestinationWeather up to its await of Promise.all: without API_KEY
\* no branch awaits and every branch has returned its entry, else one
\* GET /weather per destination is sent
CallCompareDestinationWeather ==
    /\ Idle /\ server = "weather"
    /\ \E a \in WeatherCompareArgs :
        /\ tool' = "compare_destination_weather"
        /\ args' = a
        /\ IF ~Has(a, "destinations")
           THEN /\ Finish(TypeError("Cannot read properties of undefined (reading 'map')"))
                /\ UNCHANGED <<slots, upstream, arrival>>
           ELSE IF ~apiKey
           THEN /\ pc' = "running"
                /\ \E d \in DrawStreams :
                     slots' = [i \in 1..Len(a.destinations) |->
                                 Fulfilled(MockWeatherEntry(a, i, d))]
                /\ arrival' = [i \in 1..Len(a.destinations) |-> Arrived(i, NoResponse)]
                /\ UNCHANGED <<outcome, upstream>>
           ELSE /\ pc' = "running"
                /\ slots' = [i \in 1..Len(a.destinations) |-> Pending]
                /\ upstream' = upstream + Len(a.destinations)
                /\ UNCHANGED <<outcome, arrival>>
    /\ UNCHANGED <<server, mcpServers, apiKey, step, locals, lookups>>

\* what the branch of dest returns: the entry made from the response of its
\* GET /weather, or the placeholder from its catch
WeatherBranchEntry(dest, resp) ==
    IF resp.kind = "ok" /\ WeatherWellFormed(resp.data)
    THEN WeatherEntry(dest, WeatherData(resp.data, <<>>))
    ELSE Placeholder(dest, "Unable to fetch weather data")

\* the branch of destination i ends: with the response of its GET /weather,
\* or in its catch with the placeholder
WeatherBranchSettle(i) ==
    /\ pc = "running" /\ tool = "compare_destination_weather"
    /\ Unsettled(i)
    /\ LET dest == args.destinations[i] IN
       \E resp \in Responses(UpstreamWeather) :
              /\ arrival' = Append(arrival, Arrived(i, resp))
              /\ slots' = Fulfil(slots, i, WeatherBranchEntry(dest, resp))
    /\ UNCHANGED <<server, mcpServers, apiKey, pc, tool, args, step, locals, outcome, upstream, lookups>>

\* Promise.all resolves: the entries are returned in the order of the promises
WeatherCompareJoin ==
    /\ pc = "running" /\ tool = "compare_destination_weather"
    /\ AllSettled /\ AllFulfilled(slots)
    /\ Finish(Result(Values(slots)))
    /\ UNCHANGED <<server, mcpServers, apiKey, tool, args, step, locals, slots, upstream, lookups, arrival>>

\* =========================================================== currency-server
\* bodies of GET /{base}: a table of rates, a table where a rate is 0 and
\* another is missing, and a body without rates
UpstreamRates ==
    {[rates |-> [EUR |-> 2, JPY |-> 150, USD |-> 1]],
     [rates |-> [EUR |-> 2, JPY |-> 0]],
     Empty}

\* new Date().toISOString() at the time of the call
IsoNow == "2024-06-01T00:00:00.000Z"

\* `${x}` of an argument
Template(o, f) == IF Has(o, f) THEN o[f] ELSE "undefined"

\* a symbol outside ASCII is written as its code points
destinationCurrencies ==
    [Paris |-> [code |-> "EUR", name |-> "Euro", symbol |-> "U+20AC", country |-> "France"],
     London |-> [code |-> "GBP", name |-> "British Pound", symbol |-> "U+00A3",
                 country |-> "United Kingdom"],
     Tokyo |-> [code |-> "JPY", name |-> "Japanese Yen", symbol |-> "U+00A5",
                country |-> "Japan"],
     Sydney |-> [code |-> "AUD", name |-> "Australian Dollar", symbol |-> "A$",
                 country |-> "Australia"],
     Bangkok |-> [code |-> "THB", name |-> "Thai Baht", symbol |-> "U+0E3F",
                  country |-> "Thailand"],
     Dubai |-> [code |-> "AED", name |-> "UAE Dirham", symbol |-> "U+062F.U+0625",
                country |-> "UAE"],
     Singapore |-> [code |-> "SGD", name |-> "Singapore Dollar", symbol |-> "S$",
                    country |-> "Singapore"]]
    @@ ("New York" :> [code |-> "USD", name |-> "US Dollar", symbol |-> "$",
                       country |-> "United States"])

\* names every object literal and parsed JSON object inherits from
\* Object.prototype: methods, and the prototype object itself
ObjectPrototypeMethods == {"constructor", "toString", "valueOf", "hasOwnProperty"}
ObjectPrototypeKeys == ObjectPrototypeMethods \cup {"__proto__"}
\* a function as a value: truthy, left out by JSON.stringify
JsFunction == [t |-> "function"]
\* JSON.stringify(undefined), JSON.stringify(function): the text is undefined
Undefined == [t |-> "undefined"]

\* o[o2[f]] of an object literal o: an own property, else an inherited one
\* (Object.prototype stringifies as {}), else undefined
Lookup(o, a, f) ==
    IF ~Has(a, f) THEN Undefined
    ELSE IF a[f] \in DOMAIN o THEN o[a[f]]
    ELSE IF a[f] \in ObjectPrototypeMethods THEN JsFunction
    ELSE IF a[f] = "__proto__" THEN Empty
    ELSE Undefined

DefaultCurrency ==
    [code |-> "USD", name |-> "US Dollar", symbol |-> "$", country |-> "Unknown"]

\* currencyInfo: destinationCurrencies[destination] || { code: 'USD', ... }
getDestinationCurrency(a) ==
    LET found == Lookup(destinationCurrencies, a, "destination") IN
    IF found = Undefined THEN DefaultCurrency ELSE found

\* JSON.parse(JSON.stringify(v)) of the value a tool returns
Stringify(v) == IF v = JsFunction THEN Undefined ELSE v

\* JSON.stringify(NaN)
Null == [t |-> "null"]

\* convertCurrency(a) from the response of GET /{from} on
convertCurrency(a, resp) ==
    IF resp.kind = "error"
    THEN Rewrap("Currency conversion error: ", resp.error)
    ELSE IF ~Has(resp.data, "rates")
    THEN TypeError("Cannot read properties of undefined (reading '" \o
                   Template(a, "to") \o "')")
    ELSE LET rates == resp.data.rates
             amount == IF Has(a, "amount") THEN a.amount ELSE 1
             quoted == [timestamp |-> IsoNow]
                       @@ (IF Has(a, "from") THEN "from" :> a.from ELSE Empty)
                       @@ (IF Has(a, "to") THEN "to" :> a.to ELSE Empty)
         IN IF Has(a, "to") /\ a.to \in DOMAIN rates
            THEN \* an own property of rates: a number, falsy when 0
                 IF rates[a.to] = 0
                 THEN McpError("InvalidParams", "Exchange rate not available for "
                        \o Template(a, "from") \o " to " \o Template(a, "to"))
                 ELSE Result([exchangeRate |-> quoted @@ ("rate" :> rates[a.to]),
                              convertedAmount |-> amount * rates[a.to],
                              originalAmount |-> amount])
            ELSE IF Lookup(rates, a, "to") = Undefined
            THEN McpError("InvalidParams", "Exchange rate not available for "
                    \o Template(a, "from") \o " to " \o Template(a, "to"))
            ELSE \* an inherited member: truthy, amount * rate is NaN; the
                 \* function is left out of the JSON text, the prototype is {}
                 Result([exchangeRate |->
                            quoted @@ (IF Lookup(rates, a, "to") = JsFunction
                                       THEN Empty ELSE "rate" :> Empty),
                         convertedAmount |-> Null,
                         originalAmount |-> amount])

ConvertArgs ==
    {f @@ t @@ m : f \in Opt("from", {"USD"}),
                   t \in Opt("to", {"EUR", "JPY", "CHF", "toString", "__proto__"}),
                   m \in Opt("amount", {0, 100})}

\* convertCurrency up to its await: GET /{from} is sent, whatever EXCHANGE_API_KEY
CallConvertCurrency ==
    /\ Idle /\ server = "currency"
    /\ \E a \in ConvertArgs :
        /\ tool' = "convert_currency"
        /\ args' = a
        /\ pc' = "running"
        /\ upstream' = upstream + 1
    /\ UNCHANGED <<server, mcpServers, apiKey, step, locals, slots, outcome, lookups, arrival>>

\* the response of GET /{from} arrives
ConvertCurrencyRespond ==
    /\ pc = "running" /\ tool = "convert_currency"
    /\ \E resp \in Responses(UpstreamRates) :
        /\ arrival' = <<Arrived(1, resp)>>
        /\ Finish(convertCurrency(args, resp))
    /\ UNCHANGED <<server, mcpServers, apiKey, tool, args, step, locals, slots, upstream, lookups>>

\* destinations: keys of the mapping, other casings of keys, unknown names,
\* the empty string and names inherited from Object.prototype
DestinationValues ==
    {"Paris", "London", "Tokyo", "New York", "Sydney", "Bangkok", "Dubai",
     "Singapore", "paris", "TOKYO", "Atlantis", "", "constructor", "toString",
     "__proto__"}

CallGetDestinationCurrency ==
    /\ Idle /\ server = "currency"
    /\ \E a \in Opt("destination", DestinationValues) :
        /\ tool' = "get_destination_currency"
        /\ args' = a
        /\ Finish(Result(Stringify(getDestinationCurrency(a))))
    /\ UNCHANGED <<server, mcpServers, apiKey, step, locals, slots, upstream, lookups, arrival>>

\* ------------------------------------------------- getTravelBudgetConversion
BudgetDestLists ==
    {SubSeq(DestNames, 1, n) : n \in 0..MaxBudgetDests} \cup {<<"constructor", "Paris">>}
BudgetArgs ==
    {b @@ h @@ d : b \in Opt("budget", {100}),
                   h \in Opt("homeCurrency", {"EUR"}),
                   d \in Opt("destinations", BudgetDestLists)}

\* currencyInfo of the branch of dest: JSON.parse(destCurrency.content[0].text)
BudgetCurrencyInfo(dest) == Stringify(getDestinationCurrency([destination |-> dest]))
\* JSON.parse(undefined) throws a SyntaxError before the request is sent
BudgetParseThrows(dest) == BudgetCurrencyInfo(dest) = Undefined

\* the arguments of the convertCurrency call of the branch of dest
BudgetConvertArgs(a, dest) ==
    [from |-> IF Has(a, "homeCurrency") THEN a.homeCurrency ELSE "USD"]
    @@ (IF Has(BudgetCurrencyInfo(dest), "code")
        THEN "to" :> BudgetCurrencyInfo(dest).code ELSE Empty)
    @@ (IF Has(a, "budget") THEN "amount" :> a.budget ELSE Empty)

\* the entry of dest from the result of its convertCurrency call
BudgetEntry(dest, rateInfo) ==
    [destination |-> dest,
     localCurrency |-> BudgetCurrencyInfo(dest),
     budgetInLocalCurrency |-> rateInfo.convertedAmount,
     exchangeRate |-> rateInfo.exchangeRate.rate]

\* getTravelBudgetConversion up to its await of Promise.all: every branch has
\* called getDestinationCurrency and waits for it; no request has been sent
CallGetTravelBudgetConversion ==
    /\ Idle /\ server = "currency"
    /\ \E a \in BudgetArgs :
        /\ tool' = "get_travel_budget_conversion"
        /\ args' = a
        /\ IF ~Has(a, "destinations")
           THEN /\ Finish(TypeError("Cannot read properties of undefined (reading 'map')"))
                /\ UNCHANGED <<slots, locals>>
           ELSE /\ pc' = "running"
                /\ slots' = [i \in 1..Len(a.destinations) |-> Pending]
                /\ locals' = [branches |-> [i \in 1..Len(a.destinations) |-> [at |-> 1]]]
                /\ UNCHANGED outcome
    /\ UNCHANGED <<server, mcpServers, apiKey, step, upstream, lookups, arrival>>

\* branch i of getTravelBudgetConversion waits at the await numbered at
BudgetBranchAt(i, at) ==
    /\ pc = "running" /\ tool = "get_travel_budget_conversion"
    /\ Unsettled(i)
    /\ locals.branches[i].at = at

\* the branch of destination i resumes after its await of
\* getDestinationCurrency: JSON.parse throws and the catch returns the
\* placeholder, or convertCurrency is called and sends GET /{homeCurrency}
BudgetBranchResume(i) ==
    /\ BudgetBranchAt(i, 1)
    /\ LET dest == args.destinations[i] IN
       IF BudgetParseThrows(dest)
       THEN /\ arrival' = Append(arrival, Arrived(i, NoResponse))
            /\ slots' = Fulfil(slots, i, Placeholder(dest, "Unable to convert currency"))
            /\ UNCHANGED <<locals, upstream>>
       ELSE /\ locals' = [branches |-> [locals.branches EXCEPT ![i] = [at |-> 2]]]
            /\ upstream' = upstream + 1
            /\ UNCHANGED <<slots, arrival>>
    /\ UNCHANGED <<server, mcpServers, apiKey, pc, tool, args, step, outcome, lookups>>

\* the response of the GET of branch i arrives: the convertCurrency call of
\* the branch resumes and returns its quote or throws
BudgetBranchRespond(i) ==
    /\ BudgetBranchAt(i, 2)
    /\ \E resp \in Responses(UpstreamRates) :
        locals' = [branches |-> [locals.branches EXCEPT ![i] =
            [at |-> 3, resp |-> resp,
             converted |-> convertCurrency(
                 BudgetConvertArgs(args, args.destinations[i]), resp)]]]
    /\ UNCHANGED <<server, mcpServers, apiKey, pc, tool, args, step, slots, outcome, upstream, lookups, arrival>>

\* the branch of destination i resumes after its await of convertCurrency and
\* ends: with the entry made from the quote, or in its catch with the
\* placeholder
BudgetBranchSettle(i) ==
    /\ BudgetBranchAt(i, 3)
    /\ LET dest == args.destinations[i]
           b == locals.branches[i]
       IN /\ arrival' = Append(arrival, Arrived(i, b.resp))
          /\ IF b.converted.kind = "result"
             THEN slots' = Fulfil(slots, i, BudgetEntry(dest, b.converted.value))
             ELSE slots' = Fulfil(slots, i,
                       Placeholder(dest, "Unable to convert currency"))
    /\ UNCHANGED <<server, mcpServers, apiKey, pc, tool, args, step, locals, outcome, upstream, lookups>>

\* Promise.all resolves: the entries are returned in the order of the promises
BudgetJoin ==
    /\ pc = "running" /\ tool = "get_travel_budget_conversion"
    /\ AllSettled /\ AllFulfilled(slots)
    /\ Finish(Result(Values(slots)))
    /\ UNCHANGED <<server, mcpServers, apiKey, tool, args, step, locals, slots, upstream, lookups, arrival>>

\* ---------------------------------------------------------- getCurrencyTrends
\* calendar days are counted from 2023-01-01, day 0
MonthLengths(y) ==
    <<31, IF y % 4 = 0 THEN 29 ELSE 28, 31, 30, 31, 30, 31, 31, 30, 31, 30, 31>>

\* the calendar date n days after the first of month m of year y
YearLength(y) == IF y % 4 = 0 THEN 366 ELSE 365
RECURSIVE CivilFrom(_, _, _)
CivilFrom(y, m, n) ==
    IF m = 1 /\ n >= YearLength(y) THEN CivilFrom(y + 1, 1, n - YearLength(y))
    ELSE LET length == MonthLengths(y)[m]
         IN IF n < length THEN [year |-> y, month |-> m, day |-> n + 1]
            ELSE CivilFrom(y, m + 1, n - length)
Civil(n) == CivilFrom(2023, 1, n)

Pad2(k) == IF k < 10 THEN "0" \o ToString(k) ELSE ToString(k)
\* toISOString().split('T')[0] of a calendar date
IsoDateString(c) == ToString(c.year) \o "-" \o Pad2(c.month) \o "-" \o Pad2(c.day)

\* new Date() in the server's time zone: the local day is 2024-11-09
TodayLocal == 678
\* the time zone and the local hour the server may run at
Clocks ==
    {[zone |-> "UTC", hour |-> 12],
     [zone |-> "America/New_York", hour |-> 12],
     [zone |-> "America/New_York", hour |-> 19]}

\* ToIntegerOrInfinity of x/2: the fraction is dropped, towards zero
TruncHalves(x2) == IF x2 >= 0 THEN x2 \div 2 ELSE -((-x2) \div 2)

\* date.getDate() of today
TodayDayOfMonth == Civil(TodayLocal).day

\* date.setDate(date.getDate() - i), i given in halves: the day of the month
\* is truncated and the local time of day is kept; toISOString() gives the
\* UTC date of that time
TrendDate(clock, i2) ==
    LET dayOfMonth == TodayDayOfMonth
        localDay == TodayLocal - dayOfMonth + TruncHalves(2 * dayOfMonth - i2)
    IN IsoDateString(Civil(
          (localDay * HoursPerDay + clock.hour + UtcOffset(clock.zone, localDay))
              \div HoursPerDay))

\* rates are counted in 1/RateScale
RateScale == 1000 * RandomSteps
\* baseRate + variation = 0.85 + rb * 0.3 + (rv - 0.5) * 0.1
TrendRate(rb, rv) == 850 * RandomSteps + 300 * rb + 100 * rv - 50 * RandomSteps

\* days, a JS number, is counted in halves: 7, 7.5, 8 and 365 days
TrendDaysValues == {14, 15, 16, 730}
\* const { from, to, days = 30 } = args
TrendDays2(a) == IF Has(a, "days") THEN a.days ELSE 60

\* the array the loop pushes: i runs from days - 1 down while i >= 0, and
\* each turn draws its baseRate, then its variation
Trends(a, clock, d) ==
    [k \in 1..(TrendDays2(a) \div 2) |->
        [date |-> TrendDate(clock, TrendDays2(a) - 2 * k),
         rate |-> TrendRate(Random(d, 2 * k - 2), Random(d, 2 * k - 1))]]

\* the sum of the rates of the entries lo..hi
RECURSIVE SumRates(_, _, _)
SumRates(t, lo, hi) ==
    IF lo > hi THEN 0
    ELSE IF lo = hi THEN t[lo].rate
    ELSE LET mid == (lo + hi) \div 2
         IN SumRates(t, lo, mid) + SumRates(t, mid + 1, hi)
\* the sum and the quotient are floating-point operations, each rounded: the
\* average computed lies below (-1), at (0) or above (1) the exact quotient,
\* by less than the rates differ by
RoundingErrors == {-1, 0, 1}
\* x <= y for a number x of 1/RateScale and an average y
LeAverage(x, y) == x * y.den < y.num \/ (x * y.den = y.num /\ y.err >= 0)
\* y <= x
AverageLe(y, x) == y.num < x * y.den \/ (y.num = x * y.den /\ y.err <= 0)
\* Math.min(...trends.map(item => item.rate)), Math.max likewise
TrendRates(t) == {t[k].rate : k \in DOMAIN t}
MinRate(t) == LET rates == TrendRates(t)
              IN CHOOSE r \in rates : \A q \in rates : r <= q
MaxRate(t) == LET rates == TrendRates(t)
              IN CHOOSE r \in rates : \A q \in rates : r >= q

TrendsArgs ==
    {f @@ d : f \in {Empty, [from |-> "USD", to |-> "EUR"]},
              d \in Opt("days", TrendDaysValues)}

\* getCurrencyTrends(a) at the time clock, with the draws d and the rounding
\* error err: days is echoed in halves and averageRate is the fraction
\* num/den with its rounding error
getCurrencyTrends(a, clock, d, err) ==
    LET trends == Trends(a, clock, d) IN
    Result([days |-> TrendDays2(a),
            trends |-> trends,
            averageRate |-> [num |-> SumRates(trends, 1, Len(trends)),
                             den |-> Len(trends), err |-> err],
            minRate |-> MinRate(trends),
            maxRate |-> MaxRate(trends)]
           @@ (IF Has(a, "from") THEN "from" :> a.from ELSE Empty)
           @@ (IF Has(a, "to") THEN "to" :> a.to ELSE Empty))

\* getCurrencyTrends: no request is sent
CallGetCurrencyTrends ==
    /\ Idle /\ server = "currency"
    /\ \E a \in TrendsArgs, clock \in Clocks, d \in DrawStreams, err \in RoundingErrors :
        /\ tool' = "get_currency_trends"
        /\ args' = a
        /\ locals' = [today |-> clock]
        /\ Finish(getCurrencyTrends(a, clock, d, err))
    /\ UNCHANGED <<server, mcpServers, apiKey, step, slots, upstream, lookups, arrival>>

\* ======================================================== translation-server
\* a character outside ASCII is written as its code point
mockTranslations ==
    ("es" :>
           (("Hello" :> "Hola") @@
            ("Thank you" :> "Gracias") @@
            ("Please" :> "Por favor") @@
            ("Excuse me" :> "Disculpe") @@
            ("Sorry" :> "Lo siento") @@
            ("Yes" :> "SU+00ED") @@
            ("No" :> "No") @@
            ("Goodbye" :> "AdiU+00F3s")))
    @@ ("fr" :>
           (("Hello" :> "Bonjour") @@
            ("Thank you" :> "Merci") @@
            ("Please" :> "S'il vous plaU+00EEt") @@
            ("Excuse me" :> "Excusez-moi") @@
            ("Sorry" :> "DU+00E9solU+00E9") @@
            ("Yes" :> "Oui") @@
            ("No" :> "Non") @@
            ("Goodbye" :> "Au revoir")))
    @@ ("de" :>
           (("Hello" :> "Hallo") @@
            ("Thank you" :> "Danke") @@
            ("Please" :> "Bitte") @@
            ("Excuse me" :> "Entschuldigung") @@
            ("Sorry" :> "Es tut mir leid") @@
            ("Yes" :> "Ja") @@
            ("No" :> "Nein") @@
            ("Goodbye" :> "Auf Wiedersehen")))
    @@ ("ja" :>
           (("Hello" :> "U+3053U+3093U+306BU+3061U+306F") @@
            ("Thank you" :> "U+3042U+308AU+304CU+3068U+3046") @@
            ("Please" :> "U+304AU+9858U+3044U+3057U+307EU+3059") @@
            ("Excuse me" :> "U+3059U+307FU+307EU+305BU+3093") @@
            ("Sorry" :> "U+3054U+3081U+3093U+306AU+3055U+3044") @@
            ("Yes" :> "U+306FU+3044") @@
            ("No" :> "U+3044U+3044U+3048") @@
            ("Goodbye" :> "U+3055U+3088U+3046U+306AU+3089")))

\* toUpperCase() of a language code
ToUpperCase(s) ==
    CASE s = "es" -> "ES" [] s = "fr" -> "FR" [] s = "de" -> "DE"
      [] s = "ja" -> "JA" [] s = "it" -> "IT"

TranslateArgs ==
    {t @@ g @@ s : t \in Opt("text", {"Hello", "Good night", ""}),
                   g \in Opt("targetLanguage", {"es", "ja", "it"}),
                   s \in Opt("sourceLanguage", {"en", ""})}

\* mockTranslations[targetLanguage]?.[text] is a non-empty string
HasMockTranslation(a) ==
    /\ Has(a, "targetLanguage") /\ a.targetLanguage \in DOMAIN mockTranslations
    /\ Has(a, "text") /\ a.text \in DOMAIN mockTranslations[a.targetLanguage]

\* getMockTranslation(text, targetLanguage, sourceLanguage) throws
getMockTranslationThrows(a) == ~HasMockTranslation(a) /\ ~Has(a, "targetLanguage")

getMockTranslation(a) ==
    [translatedText |->
        IF HasMockTranslation(a) THEN mockTranslations[a.targetLanguage][a.text]
        ELSE "[" \o ToUpperCase(a.targetLanguage) \o "] " \o Template(a, "text"),
     sourceLanguage |-> IF Truthy(a, "sourceLanguage") THEN a.sourceLanguage ELSE "en",
     targetLanguage |-> a.targetLanguage,
     confidence100 |-> 95]   \* confidence: 0.95, in hundredths
    @@ (IF Has(a, "text") THEN "originalText" :> a.text ELSE Empty)

\* bodies of POST '': a translation with and without the detected language,
\* and a body without data
UpstreamTranslations ==
    {[data |-> [translations |->
        <<[translatedText |-> "Hola", detectedSourceLanguage |-> "en"]>>]],
     [data |-> [translations |-> <<[translatedText |-> "Hola"]>>]],
     Empty}

\* translateText from the response of POST '' on
translateText(a, resp) ==
    IF resp.kind = "error"
    THEN Rewrap("Translation API error: ", resp.error)
    ELSE IF ~Has(resp.data, "data")
    THEN TypeError("Cannot read properties of undefined (reading 'translations')")
    ELSE LET first == resp.data.data.translations[1] IN
         Result([translatedText |-> first.translatedText]
                @@ (IF Has(a, "text") THEN "originalText" :> a.text ELSE Empty)
                @@ (IF Has(first, "detectedSourceLanguage")
                    THEN "sourceLanguage" :> first.detectedSourceLanguage
                    ELSE IF Has(a, "sourceLanguage")
                    THEN "sourceLanguage" :> a.sourceLanguage ELSE Empty)
                @@ (IF Has(a, "targetLanguage")
                    THEN "targetLanguage" :> a.targetLanguage ELSE Empty))

\* translateText(a) without GOOGLE_TRANSLATE_API_KEY
translateTextMock(a) ==
    IF getMockTranslationThrows(a)
    THEN TypeError("Cannot read properties of undefined (reading 'toUpperCase')")
    ELSE Result(getMockTranslation(a))

\* translateText up to its await: the mock translation without
\* GOOGLE_TRANSLATE_API_KEY, else POST '' is sent
CallTranslateText ==
    /\ Idle /\ server = "translation"
    /\ \E a \in TranslateArgs :
        /\ tool' = "translate_text"
        /\ args' = a
        /\ IF ~apiKey
           THEN /\ Finish(translateTextMock(a))
                /\ UNCHANGED upstream
           ELSE /\ pc' = "running"
                /\ upstream' = upstream + 1
                /\ UNCHANGED outcome
    /\ UNCHANGED <<server, mcpServers, apiKey, step, locals, slots, lookups, arrival>>

\* the response of POST '' arrives
TranslateTextRespond ==
    /\ pc = "running" /\ tool = "translate_text"
    /\ \E resp \in Responses(UpstreamTranslations) :
        /\ arrival' = <<Arrived(1, resp)>>
        /\ Finish(translateText(args, resp))
    /\ UNCHANGED <<server, mcpServers, apiKey, tool, args, step, locals, slots, upstream, lookups>>

\* bodies of POST '/detect': detections, and a body without data
UpstreamDetections ==
    {[data |-> [detections |-> <<<<[language |-> "en", confidence |-> 1]>>>>]],
     Empty}

\* detectLanguage from the response of POST '/detect' on
detectLanguage(a, resp) ==
    IF resp.kind = "error"
    THEN Rewrap("Language detection API error: ", resp.error)
    ELSE IF Has(resp.data, "data") THEN Result(resp.data.data) ELSE Result(Undefined)

\* detectLanguage(a) without GOOGLE_TRANSLATE_API_KEY
detectLanguageMock(a) == Result([language |-> "en", confidence100 |-> 95] @@ a)

\* detectLanguage up to its await: a fixed detection without
\* GOOGLE_TRANSLATE_API_KEY, else POST '/detect' is sent
CallDetectLanguage ==
    /\ Idle /\ server = "translation"
    /\ \E a \in Opt("text", {"Hello", "Hola"}) :
        /\ tool' = "detect_language"
        /\ args' = a
        /\ IF ~apiKey
           THEN /\ Finish(detectLanguageMock(a))
                /\ UNCHANGED upstream
           ELSE /\ pc' = "running"
                /\ upstream' = upstream + 1
                /\ UNCHANGED outcome
    /\ UNCHANGED <<server, mcpServers, apiKey, step, locals, slots, lookups, arrival>>

\* the response of POST '/detect' arrives
DetectLanguageRespond ==
    /\ pc = "running" /\ tool = "detect_language"
    /\ \E resp \in Responses(UpstreamDetections) :
        /\ arrival' = <<Arrived(1, resp)>>
        /\ Finish(detectLanguage(args, resp))
    /\ UNCHANGED <<server, mcpServers, apiKey, tool, args, step, locals, slots, upstream, lookups>>

\* ------------------------------------ getTravelPhrases, translateDestinationInfo
phrases ==
    [basic |-> [hello |-> "Hello", thank_you |-> "Thank you", please |-> "Please",
                excuse_me |-> "Excuse me", sorry |-> "Sorry", yes |-> "Yes",
                no |-> "No", goodbye |-> "Goodbye"],
     emergency |-> [help |-> "Help", emergency |-> "Emergency", hospital |-> "Hospital",
                    police |-> "Police", fire |-> "Fire", doctor |-> "Doctor",
                    medicine |-> "Medicine"],
     food |-> [menu |-> "Menu", water |-> "Water", coffee |-> "Coffee", tea |-> "Tea",
               bread |-> "Bread", vegetarian |-> "Vegetarian", allergic |-> "Allergic",
               bill |-> "Bill"],
     transport |-> [taxi |-> "Taxi", bus |-> "Bus", train |-> "Train",
                    airport |-> "Airport", station |-> "Station", ticket |-> "Ticket",
                    left |-> "Left", right |-> "Right"],
     accommodation |-> [hotel |-> "Hotel", room |-> "Room", bathroom |-> "Bathroom",
                        key |-> "Key", reservation |-> "Reservation",
                        check_in |-> "Check in", check_out |-> "Check out"]]

\* the arguments mockTranslate(text, a[f]) hands to getMockTranslation
MockTranslateArgs(text, a, f) ==
    [text |-> text] @@ (IF Has(a, f) THEN [targetLanguage |-> a[f]] ELSE Empty)
\* mockTranslate(text, a[f])
mockTranslate(text, a, f) == getMockTranslation(MockTranslateArgs(text, a, f)).translatedText

PhrasesArgs ==
    {l @@ c : l \in Opt("language", {"es", "ja", "it"}),
              c \in Opt("category", {"basic", "emergency", "sightseeing", ""})}

\* const { language, category = 'basic' } = args
PhrasesCategory(a) == IF Has(a, "category") THEN a.category ELSE "basic"
\* phrases[category] || phrases.basic
categoryPhrases(a) ==
    IF PhrasesCategory(a) \in DOMAIN phrases THEN phrases[PhrasesCategory(a)]
    ELSE phrases.basic

getTravelPhrases(a) ==
    IF ~Has(a, "language")
    THEN TypeError("Cannot read properties of undefined (reading 'toUpperCase')")
    ELSE Result([language |-> a.language,
                 category |-> PhrasesCategory(a),
                 phrases |-> [k \in DOMAIN categoryPhrases(a) |->
                                mockTranslate(categoryPhrases(a)[k], a, "language")]])

\* getTravelPhrases: no request is sent with or without the key
CallGetTravelPhrases ==
    /\ Idle /\ server = "translation"
    /\ \E a \in PhrasesArgs :
        /\ tool' = "get_travel_phrases"
        /\ args' = a
        /\ Finish(getTravelPhrases(a))
    /\ UNCHANGED <<server, mcpServers, apiKey, step, locals, slots, upstream, lookups, arrival>>

contentTemplates(destination) ==
    [guide |-> "Welcome to " \o destination
               \o ". This beautiful destination offers amazing experiences for travelers.",
     menu |-> "Local cuisine in " \o destination
              \o " features traditional dishes and fresh ingredients.",
     signs |-> "Important signs and directions in " \o destination \o " for tourists.",
     emergency |-> "Emergency contacts and procedures in " \o destination \o ".",
     customs |-> "Local customs and etiquette guidelines for " \o destination \o "."]

DestinationInfoArgs ==
    {d @@ g @@ c : d \in Opt("destination", {"Tokyo"}),
                   g \in Opt("targetLanguage", {"es", "it"}),
                   c \in Opt("contentType", {"menu", "poster", ""})}

\* const { destination, targetLanguage, contentType = 'guide' } = args
ContentType(a) == IF Has(a, "contentType") THEN a.contentType ELSE "guide"
\* contentTemplates[contentType] || contentTemplates.guide
DestinationTemplate(a) ==
    LET templates == contentTemplates(Template(a, "destination"))
    IN IF ContentType(a) \in DOMAIN templates THEN templates[ContentType(a)]
       ELSE templates.guide

translateDestinationInfo(a) ==
    IF ~Has(a, "targetLanguage")
    THEN TypeError("Cannot read properties of undefined (reading 'toUpperCase')")
    ELSE Result([targetLanguage |-> a.targetLanguage,
                 contentType |-> ContentType(a),
                 originalText |-> DestinationTemplate(a),
                 translatedText |-> mockTranslate(DestinationTemplate(a), a,
                                                  "targetLanguage")]
                @@ (IF Has(a, "destination") THEN "destination" :> a.destination
                    ELSE Empty))

\* translateDestinationInfo: no request is sent with or without the key
CallTranslateDestinationInfo ==
    /\ Idle /\ server = "translation"
    /\ \E a \in DestinationInfoArgs :
        /\ tool' = "translate_destination_info"
        /\ args' = a
        /\ Finish(translateDestinationInfo(a))
    /\ UNCHANGED <<server, mcpServers, apiKey, step, locals, slots, upstream, lookups, arrival>>

\* ------------------------------------------- calculateOverallScore, alone
\* hotel costs 0, 5, ..., 5 * MaxCostSteps
MaxCostSteps == 52
\* activity counts 0..MaxActivities
MaxActivities == 5
\* safety ratings 0, 0.5, ..., 5, in halves
SafetyHalves == 0..10

ScoreInputs ==
    {[hotelCost |-> 5 * c, safety2 |-> s2, activities |-> n, criteria |-> w] :
        c \in 0..MaxCostSteps, s2 \in SafetyHalves, n \in 0..MaxActivities,
        w \in Opt("weather", WeatherPrefValues)}

\* calculateOverallScore is applied to the inputs drawn
ApplyScore ==
    /\ pc = "running" /\ tool = "calculateOverallScore"
    /\ IF calculateOverallScoreThrows(args.criteria)
       THEN Finish(TypeError("criteria.weather.toLowerCase is not a function"))
       ELSE Finish(Result(calculateOverallScore(getWeatherForecast(Empty),
                args.hotelCost, args.safety2, args.activities, args.criteria)))
    /\ UNCHANGED <<server, mcpServers, apiKey, tool, args, step, locals, slots, upstream, lookups, arrival>>

InitScore ==
    /\ server = "orchestrator"
    /\ mcpServers = <<>>
    /\ apiKey = FALSE
    /\ pc = "running"
    /\ tool = "calculateOverallScore"
    /\ args \in ScoreInputs
    /\ step = 0
    /\ locals = Empty
    /\ slots = <<>>
    /\ outcome = NoOutcome
    /\ upstream = 0
    /\ lookups = <<>>
    /\ arrival = <<>>

NextScore == ApplyScore

SpecScore == InitScore /\ [][NextScore]_vars

\* --------------------------- one branch of compareDestinations, alone
\* Math.floor(Math.random() * 100) + 100, for every value Math.random() has
HotelCosts == {100 + k : k \in 0..99}
\* Math.floor(Math.random() * 2) + 4, for every value Math.random() has
SafetyRatings == {4 + k : k \in 0..1}
\* criteria of the types the schema gives them
BranchCriteria ==
    {w @@ t :
        w \in Opt("weather", {v \in WeatherPrefValues : v.t = "string"}),
        t \in Opt("activities", {v \in ActivityTypeValues : v.t = "array"})}
BranchInputs ==
    {[destination |-> "Tokyo", hotelCost |-> c, safety |-> f, criteria |-> k] :
        c \in HotelCosts, f \in SafetyRatings, k \in BranchCriteria}

\* the branch of a destination is run on the values its lookups gave
ApplyBranch ==
    /\ pc = "running" /\ tool = "compareDestinations branch"
    /\ Finish(Result(ComparisonEntry(args.destination, args.criteria,
                                     args.hotelCost, args.safety)))
    /\ UNCHANGED <<server, mcpServers, apiKey, tool, args, step, locals, slots, upstream, lookups, arrival>>

InitBranch ==
    /\ server = "orchestrator"
    /\ mcpServers = <<>>
    /\ apiKey = FALSE
    /\ pc = "running"
    /\ tool = "compareDestinations branch"
    /\ args \in BranchInputs
    /\ step = 0
    /\ locals = Empty
    /\ slots = <<>>
    /\ outcome = NoOutcome
    /\ upstream = 0
    /\ lookups = <<>>
    /\ arrival = <<>>

NextBranch == ApplyBranch

SpecBranch == InitBranch /\ [][NextBranch]_vars

\* the response has been sent: nothing of the call outlives it
Return ==
    /\ pc = "done"
    /\ pc' = "idle"
    /\ tool' = ""
    /\ args' = Empty
    /\ step' = 0
    /\ locals' = Empty
    /\ slots' = <<>>
    /\ outcome' = NoOutcome
    /\ upstream' = 0
    /\ lookups' = <<>>
    /\ arrival' = <<>>
    /\ UNCHANGED <<server, mcpServers, apiKey>>

Servers == {"orchestrator", "weather", "currency", "translation"}

Init ==
    /\ server \in Servers
    /\ mcpServers = <<>>
    /\ apiKey \in (IF server = "orchestrator" THEN {FALSE} ELSE BOOLEAN)
    /\ pc = "idle"
    /\ tool = ""
    /\ args = Empty
    /\ step = 0
    /\ locals = Empty
    /\ slots = <<>>
    /\ outcome = NoOutcome
    /\ upstream = 0
    /\ lookups = <<>>
    /\ arrival = <<>>

Next ==
    \/ CallPlanTrip
    \/ PlanTripResume
    \/ CallGetTravelInsights
    \/ TravelInsightsResume
    \/ CallCompareDestinations
    \/ \E i \in 1..MaxDests : CompareBranchResume(i)
    \/ \E i \in 1..MaxDests : CompareBranchSettle(i)
    \/ CompareReject
    \/ CompareJoin
    \/ CallGetTravelWeather
    \/ TravelWeatherCurrent
    \/ TravelWeatherForecast
    \/ CallGetWeatherAlerts
    \/ CallCompareDestinationWeather
    \/ \E i \in 1..MaxDests : WeatherBranchSettle(i)
    \/ WeatherCompareJoin
    \/ CallConvertCurrency
    \/ ConvertCurrencyRespond
    \/ CallGetDestinationCurrency
    \/ CallGetTravelBudgetConversion
    \/ \E i \in 1..MaxDests : BudgetBranchResume(i)
    \/ \E i \in 1..MaxDests : BudgetBranchRespond(i)
    \/ \E i \in 1..MaxDests : BudgetBranchSettle(i)
    \/ BudgetJoin
    \/ CallGetCurrencyTrends
    \/ CallTranslateText
    \/ TranslateTextRespond
    \/ CallDetectLanguage
    \/ DetectLanguageRespond
    \/ CallGetTravelPhrases
    \/ CallTranslateDestinationInfo
    \/ CallUnknownTool
    \/ Return

Spec == Init /\ [][Next]_vars

\* ------------------------------------------------- a silent upstream service
\* the servers run with their credential, so that every provider call is sent
InitSilentUpstream ==
    /\ Init
    /\ server \in {"weather", "currency", "translation"}
    /\ apiKey

\* the step taken has consumed what a pending request ended in
RequestEnded ==
    /\ arrival' # <<>>
    /\ arrival'[Len(arrival')].resp.kind \in {"ok", "error"}
\* the timer of a pending request fires: the request ends in the AxiosError
\* of the timeout
TimerFires ==
    /\ \/ ConvertCurrencyRespond
       \/ TranslateTextRespond
       \/ DetectLanguageRespond
       \/ TravelWeatherCurrent
       \/ TravelWeatherForecast
       \/ \E i \in 1..MaxDests : WeatherBranchSettle(i)
    /\ RequestEnded
    /\ arrival'[Len(arrival')].resp = Failed(TimeoutError)
\* the timer of the pending request of a branch of getTravelBudgetConversion
\* fires
BranchTimerFires ==
    \E i \in 1..MaxDests :
        /\ BudgetBranchRespond(i)
        /\ locals'.branches[i].resp = Failed(TimeoutError)
\* a step of the server's own code that waits for no upstream service
HandlerStep ==
    \/ \E i \in 1..MaxDests : BudgetBranchResume(i)
    \/ \E i \in 1..MaxDests : BudgetBranchSettle(i)
    \/ BudgetJoin
    \/ WeatherCompareJoin
    \/ Return

\* every tool the three servers dispatch
NextSilentUpstream ==
    \/ CallGetTravelWeather
    \/ TravelWeatherCurrent
    \/ TravelWeatherForecast
    \/ CallGetWeatherAlerts
    \/ CallCompareDestinationWeather
    \/ \E i \in 1..MaxDests : WeatherBranchSettle(i)
    \/ WeatherCompareJoin
    \/ CallConvertCurrency
    \/ ConvertCurrencyRespond
    \/ CallGetDestinationCurrency
    \/ CallGetTravelBudgetConversion
    \/ \E i \in 1..MaxDests : BudgetBranchResume(i)
    \/ \E i \in 1..MaxDests : BudgetBranchRespond(i)
    \/ \E i \in 1..MaxDests : BudgetBranchSettle(i)
    \/ BudgetJoin
    \/ CallGetCurrencyTrends
    \/ CallTranslateText
    \/ TranslateTextRespond
    \/ CallDetectLanguage
    \/ DetectLanguageRespond
    \/ CallGetTravelPhrases
    \/ CallTranslateDestinationInfo
    \/ CallUnknownTool
    \/ Return

\* the upstream services may stay silent for ever: the steps of the event loop
\* and the timers are fair, the arrival of a response is not
SpecSilentUpstream ==
    /\ InitSilentUpstream /\ [][NextSilentUpstream]_vars
    /\ WF_vars(HandlerStep) /\ WF_vars(TimerFires) /\ WF_vars(BranchTimerFires)
\* ====================================================== concurrent requests
\* One process with several requests in flight.  The handlers are async
\* functions: a request runs from one await to the next without interruption,
\* and between awaits the other requests may run.  Here pc, tool, args, step,
\* outcome, upstream, lookups and arrival hold one value for each request:
\* step[q] is the await an unbranched handler waits at, upstream[q] the number
\* of HTTP requests the call has sent, arrival[q][i] the responses and draws
\* branch i of the call has received (an unbranched handler is its branch 1)
\* and lookups[q] whether another request was between two of its awaits when
\* request q ended.  locals and slots hold one value for each activation
\* record.
MaxRequests == 2
Requests == 1..MaxRequests

\* (mutant of Frame) the handler keeps its local constants in one place for
\* all requests
FrameShared(q) == 1
\* the activation record of the handler call of request q: const and let
\* bindings are made anew for each call
Frame(q) == q

\* a draw of Math.random() as an input of a step
Drawn(r) == [kind |-> "draw", r |-> r]
\* the Math.random() values of a handler that draws in one run, as its input
DrawnStream(d) == [kind |-> "draws", d |-> d]
\* the time zone the process runs in, read by new Date(...)
InZone(zone) == [kind |-> "zone", zone |-> zone]
\* new Date() of the call
AtClock(clock) == [kind |-> "clock", clock |-> clock]
\* the rounding of a floating-point quotient
Rounded(err) == [kind |-> "rounding", err |-> err]

\* the draws of Math.random() the concurrent requests make: the two ends of
\* Draws
ConcurrentDraws == {0, RandomSteps - 1}
\* the streams of draws: all draws least, all greatest
ConcurrentDrawStreams == {d \in DrawStreams : \A j \in DOMAIN d : d[j] = d[0]}
\* what an HTTP request of a concurrent call may end in: every body, and the
\* error responses that carry a message
ConcurrentResponses(bodies) ==
    {r \in Responses(bodies) :
        r.kind = "error" =>
            Has(r.error, "response") /\ Has(r.error.response.data, "message")}
ConcurrentZones == {"UTC", "Asia/Tokyo"}
ConcurrentClocks == {c \in Clocks : c.hour = 12}

\* n branches that have received nothing
NoInputs(n) == [i \in 1..n |-> <<>>]
\* request q arrives with the tool name (or the route) t and the arguments
\* (or the body) a
Arrive(q, t, a) ==
    /\ pc[q] = "idle"
    /\ tool' = [tool EXCEPT ![q] = t]
    /\ args' = [args EXCEPT ![q] = a]
\* request q ends with the outcome o, which passes the catch of the dispatcher
FinishRequest(q, o) ==
    /\ pc' = [pc EXCEPT ![q] = "done"]
    /\ outcome' = [outcome EXCEPT ![q] = Dispatch(o)]
    /\ lookups' = [lookups EXCEPT ![q] =
                       \E o2 \in Requests \ {q} : pc[o2] = "running"]
\* the handler of request q has no await on the path taken: it runs from its
\* call to its end, with the inputs in, and ends with o
Answer(q, t, a, in, o) ==
    /\ Arrive(q, t, a)
    /\ arrival' = [arrival EXCEPT ![q] = <<in>>]
    /\ FinishRequest(q, o)
    /\ UNCHANGED <<server, mcpServers, apiKey, step, locals, slots, upstream>>
\* the handler of request q runs up to its first await: l are its bindings,
\* ss the promises it hands to Promise.all, n the HTTP requests it has sent
\* and in the inputs its branches have received
Start(q, t, a, l, ss, n, in) ==
    /\ Arrive(q, t, a)
    /\ pc' = [pc EXCEPT ![q] = "running"]
    /\ step' = [step EXCEPT ![q] = 1]
    /\ locals' = [locals EXCEPT ![Frame(q)] = l]
    /\ slots' = [slots EXCEPT ![Frame(q)] = ss]
    /\ upstream' = [upstream EXCEPT ![q] = n]
    /\ arrival' = [arrival EXCEPT ![q] = in]
    /\ UNCHANGED <<server, mcpServers, apiKey, outcome, lookups>>
\* the inputs of request q once branch i has received x
Noted(q, i, x) == [arrival EXCEPT ![q] = [@ EXCEPT ![i] = Append(@, x)]]
\* request q waits in the handler of t
Awaits(q, t) == pc[q] = "running" /\ tool[q] = t
\* branch i of the call of request q has been started and has not settled
BranchWaits(q, i) ==
    /\ i \in DOMAIN slots[Frame(q)] /\ slots[Frame(q)][i] = Pending
    /\ Has(locals[Frame(q)], "branches")
    /\ i \in DOMAIN locals[Frame(q)].branches
    /\ i \in DOMAIN arrival[q]
\* the bindings of the call of request q once its branch i has become b
BranchMoved(q, i, b) ==
    [locals EXCEPT ![Frame(q)] =
        [branches |-> [locals[Frame(q)].branches EXCEPT ![i] = b]]]
\* the promises of the call of request q, all of them fulfilled
Joined(q, n) == Len(slots[Frame(q)]) = n /\ AllFulfilled(slots[Frame(q)])

\* ---------------------------------------------------------- the orchestrator
\* planTrip(a) as a whole, with the draw r of getSafetyRating
planTrip(a, r) ==
    IF NumGE(NewDate(a, "startDate"), NewDate(a, "endDate"))
    THEN McpError("InvalidParams", "End date must be after start date")
    ELSE IF getActivitiesThrows(Preferences(a), "activityTypes")
    THEN TypeError("activityTypes.includes is not a function")
    ELSE LET l == [k \in 1..7 |-> PlanLookupValue(k, a, r)]
         IN Result([totalCost |-> calculateTotalCost(l[2], l[3], l[4], Travelers(a)),
                    weather |-> l[1], flights |-> l[2], hotels |-> l[3],
                    activities |-> l[4], currency |-> l[5], language |-> l[6],
                    safetyRating |-> l[7]]
                   @@ (IF Has(a, "destination")
                       THEN [destination |-> a.destination] ELSE Empty))

\* arguments of plan_trip: a plan, a plan with preferences, dates the
\* validation refuses and activity types that make getActivities throw
ConcurrentPlanArgs ==
    {[destination |-> "Tokyo", startDate |-> DayString(1), endDate |-> DayString(2)],
     [destination |-> "Bangkok", startDate |-> DayString(1), endDate |-> DayString(3),
      travelers |-> 2,
      preferences |-> [activityTypes |-> [t |-> "array", v |-> <<"culinary">>]]],
     [destination |-> "Tokyo", startDate |-> DayString(2), endDate |-> DayString(2)],
     [destination |-> "Tokyo", startDate |-> DayString(1), endDate |-> DayString(2),
      preferences |-> [activityTypes |-> [t |-> "number", v |-> <<"5">>]]]}

\* planTrip of request q up to its first await
ConcurrentCallPlanTrip(q) ==
    /\ server = "orchestrator"
    /\ \E a \in ConcurrentPlanArgs :
        IF NumGE(NewDate(a, "startDate"), NewDate(a, "endDate"))
        THEN Answer(q, "plan_trip", a, <<>>,
                    McpError("InvalidParams", "End date must be after start date"))
        ELSE Start(q, "plan_trip", a, Empty, <<>>, 0, NoInputs(1))

\* planTrip of request q resumes after an await
ConcurrentPlanTripResume(q) ==
    /\ server = "orchestrator"
    /\ Awaits(q, "plan_trip")
    /\ \E r \in (IF step[q] = 7 THEN ConcurrentDraws ELSE {0}) :
        IF step[q] = 4 /\ getActivitiesThrows(Preferences(args[q]), "activityTypes")
        THEN /\ FinishRequest(q, TypeError("activityTypes.includes is not a function"))
             /\ UNCHANGED <<step, locals, arrival>>
        ELSE LET l == (PlanLocalNames[step[q]] :> PlanLookupValue(step[q], args[q], r))
                      @@ locals[Frame(q)]
             IN /\ locals' = [locals EXCEPT ![Frame(q)] = l]
                /\ IF step[q] < 7
                   THEN /\ step' = [step EXCEPT ![q] = step[q] + 1]
                        /\ UNCHANGED <<pc, outcome, lookups, arrival>>
                   ELSE /\ FinishRequest(q, Result(
                               [totalCost |-> calculateTotalCost(l.flights, l.hotels,
                                                  l.activities, Travelers(args[q]))]
                               @@ l
                               @@ (IF Has(args[q], "destination")
                                   THEN [destination |-> args[q].destination]
                                   ELSE Empty)))
                        /\ arrival' = Noted(q, 1, Drawn(r))
                        /\ UNCHANGED step
    /\ UNCHANGED <<server, mcpServers, apiKey, tool, args, slots, upstream>>

\* getTravelInsights(a) as a whole
getTravelInsights(a) ==
    Insights(a, [n \in Range(InsightsNames) |->
                    InsightsLookupValue(CHOOSE k \in DOMAIN InsightsNames :
                                            InsightsNames[k] = n, a)])

ConcurrentInsightsArgs ==
    {[destination |-> "Tokyo"],
     [destination |-> "Paris", travelDate |-> DayString(1)]}

\* getTravelInsights of request q up to its first await
ConcurrentCallGetTravelInsights(q) ==
    /\ server = "orchestrator"
    /\ \E a \in ConcurrentInsightsArgs :
        Start(q, "get_travel_insights", a, Empty, <<>>, 0, NoInputs(1))

\* getTravelInsights of request q resumes after an await
ConcurrentTravelInsightsResume(q) ==
    /\ server = "orchestrator"
    /\ Awaits(q, "get_travel_insights")
    /\ LET l == (InsightsNames[step[q]] :> InsightsLookupValue(step[q], args[q]))
                @@ locals[Frame(q)]
       IN /\ locals' = [locals EXCEPT ![Frame(q)] = l]
          /\ IF step[q] < Len(InsightsLookups)
             THEN /\ step' = [step EXCEPT ![q] = step[q] + 1]
                  /\ UNCHANGED <<pc, outcome, lookups>>
             ELSE /\ FinishRequest(q, Insights(args[q], l))
                  /\ UNCHANGED step
    /\ UNCHANGED <<server, mcpServers, apiKey, tool, args, slots, upstream, arrival>>

\* request q names a tool the switch of the dispatcher does not know: the
\* handler has no await
ConcurrentCallUnknownTool(q) ==
    /\ server \in Servers
    /\ Answer(q, "unknown_tool", Empty, <<>>,
              McpError("MethodNotFound", "Unknown tool: unknown_tool"))

\* what the branches of compareDestinations(a) throw, if they throw
\* compareDestinations(a) as a whole; in[i] are the draws of the branch of
\* destination i, that of getAverageHotelCost, then that of getSafetyRating
compareDestinations(a, in) ==
    IF ~Has(a, "destinations")
    THEN TypeError("Cannot read properties of undefined (reading 'map')")
    ELSE IF a.destinations # <<>> /\ CompareThrows(a)
    THEN CompareThrown(a)
    ELSE Result(Sort([i \in DOMAIN a.destinations |->
            Comparison(a.destinations[i], Criteria(a), in[i][1].r, in[i][2].r)]))

\* arguments of compare_destinations: two destinations, one destination with
\* criteria that make its branch throw, two of them with such criteria, and
\* no list
ConcurrentCompareArgs ==
    {[destinations |-> <<"Paris", "Tokyo">>,
      criteria |-> [activities |-> [t |-> "array", v |-> <<"relaxation">>]]],
     [destinations |-> <<"Tokyo">>,
      criteria |-> [weather |-> [t |-> "number", v |-> "5"]]],
     [destinations |-> <<"Paris", "Tokyo">>,
      criteria |-> [activities |-> [t |-> "number", v |-> <<"5">>]]],
     Empty}

\* compareDestinations of request q up to its await of Promise.all
ConcurrentCallCompareDestinations(q) ==
    /\ server = "orchestrator"
    /\ \E a \in ConcurrentCompareArgs :
        IF ~Has(a, "destinations")
        THEN Answer(q, "compare_destinations", a, <<>>,
                    TypeError("Cannot read properties of undefined (reading 'map')"))
        ELSE Start(q, "compare_destinations", a, [branches |-> BranchesStarted(a)],
                   [i \in 1..Len(a.destinations) |-> Pending], 0,
                   NoInputs(Len(a.destinations)))

\* branch i of the compareDestinations of request q waits at an await; a
\* branch goes on when another has rejected Promise.all and the call has ended
ConcurrentBranchWaits(q, i) ==
    /\ server = "orchestrator"
    /\ pc[q] \in {"running", "done"} /\ tool[q] = "compare_destinations"
    /\ Has(args[q], "destinations") /\ i \in DOMAIN args[q].destinations
    /\ BranchWaits(q, i)
    /\ locals[Frame(q)].branches[i].at \in 1..4

\* the branch of destination i of request q resumes after one of its first
\* three awaits; a draw it makes is noted with the request
ConcurrentCompareBranchResume(q, i) ==
    /\ ConcurrentBranchWaits(q, i)
    /\ LET b == locals[Frame(q)].branches[i] IN
       /\ b.at < 4
       /\ \E r \in BranchDraws(b) :
            /\ locals' = BranchMoved(q, i, BranchResumed(b, r))
            /\ arrival' = IF b.at < 3 THEN Noted(q, i, Drawn(r)) ELSE arrival
    /\ UNCHANGED <<server, mcpServers, apiKey, pc, tool, args, step, slots, outcome, upstream, lookups>>

\* the branch of destination i of request q resumes after its last await and
\* runs to its end: its entry fulfils promise i, or it throws, which rejects
\* promise i and leaves the request waiting for Promise.all
ConcurrentCompareBranchSettle(q, i) ==
    /\ ConcurrentBranchWaits(q, i)
    /\ LET b == locals[Frame(q)].branches[i] IN
       /\ b.at = 4
       /\ IF CompareThrows(args[q])
          THEN /\ locals' = BranchMoved(q, i, [at |-> 5, rc |-> b.rc, rs |-> b.rs])
               /\ UNCHANGED slots
          ELSE /\ slots' = [slots EXCEPT ![Frame(q)] =
                    Fulfil(slots[Frame(q)], i,
                           Comparison(args[q].destinations[i], Criteria(args[q]),
                                      b.rc, b.rs))]
               /\ UNCHANGED locals
    /\ UNCHANGED <<server, mcpServers, apiKey, pc, tool, args, step, outcome, upstream, lookups, arrival>>

\* Promise.all of request q has been rejected by the first branch that threw:
\* the await of compareDestinations throws what the branch threw and the
\* request ends; the branches that have not ended go on
ConcurrentCompareReject(q) ==
    /\ server = "orchestrator"
    /\ Awaits(q, "compare_destinations")
    /\ Has(locals[Frame(q)], "branches")
    /\ \E i \in DOMAIN locals[Frame(q)].branches : locals[Frame(q)].branches[i].at = 5
    /\ FinishRequest(q, CompareThrown(args[q]))
    /\ UNCHANGED <<server, mcpServers, apiKey, tool, args, step, locals, slots, upstream, arrival>>

\* Promise.all of request q resolves: the comparisons are sorted and returned
ConcurrentCompareJoin(q) ==
    /\ server = "orchestrator"
    /\ Awaits(q, "compare_destinations")
    /\ Joined(q, Len(args[q].destinations))
    /\ FinishRequest(q, Result(Sort(Values(slots[Frame(q)]))))
    /\ UNCHANGED <<server, mcpServers, apiKey, tool, args, step, locals, slots, upstream, arrival>>

\* -------------------------------------------------------- the weather server
\* getTravelWeather(a) as a whole, in a server with or without API_KEY: in
\* holds the draws of the mock data, or the response of GET /weather, that of
\* GET /forecast and the time zone
getTravelWeather(a, key, in) ==
    IF ~key
    THEN Result(getMockWeatherData(a, "startDate", "endDate", in[1].d, 0))
    ELSE IF in[1].kind = "error"
    THEN Rewrap("Weather API error: ", in[1].error)
    ELSE IF Truthy(a, "startDate") /\ Truthy(a, "endDate")
    THEN TravelForecastOutcome(a, in[1].data, in[2], in[3].zone)
    ELSE TravelWeatherOutcome(in[1].data, <<>>)

ConcurrentWeatherArgs ==
    {[destination |-> "Tokyo"],
     [destination |-> "Tokyo", startDate |-> DayString(1), endDate |-> DayString(2)]}

\* getTravelWeather of request q up to its first await
ConcurrentCallGetTravelWeather(q) ==
    /\ server = "weather"
    /\ \E a \in ConcurrentWeatherArgs :
        IF ~apiKey
        THEN \E d \in ConcurrentDrawStreams :
                Answer(q, "get_travel_weather", a, <<DrawnStream(d)>>,
                       Result(getMockWeatherData(a, "startDate", "endDate", d, 0)))
        ELSE Start(q, "get_travel_weather", a, Empty, <<>>, 1, NoInputs(1))

\* the response of GET /weather of request q arrives
ConcurrentTravelWeatherCurrent(q) ==
    /\ server = "weather"
    /\ Awaits(q, "get_travel_weather") /\ step[q] = 1
    /\ \E resp \in ConcurrentResponses(UpstreamWeather) :
        /\ arrival' = Noted(q, 1, resp)
        /\ IF resp.kind = "error"
           THEN /\ FinishRequest(q, Rewrap("Weather API error: ", resp.error))
                /\ UNCHANGED <<step, locals, upstream>>
           ELSE IF Truthy(args[q], "startDate") /\ Truthy(args[q], "endDate")
           THEN /\ locals' = [locals EXCEPT ![Frame(q)] = [currentResponse |-> resp.data]]
                /\ step' = [step EXCEPT ![q] = 2]
                /\ upstream' = [upstream EXCEPT ![q] = upstream[q] + 1]
                /\ UNCHANGED <<pc, outcome, lookups>>
           ELSE /\ FinishRequest(q, TravelWeatherOutcome(resp.data, <<>>))
                /\ UNCHANGED <<step, locals, upstream>>
    /\ UNCHANGED <<server, mcpServers, apiKey, tool, args, slots>>

\* the response of GET /forecast of request q arrives
ConcurrentTravelWeatherForecast(q) ==
    /\ server = "weather"
    /\ Awaits(q, "get_travel_weather") /\ step[q] = 2
    /\ Has(locals[Frame(q)], "currentResponse")
    /\ \E resp \in ConcurrentResponses(UpstreamForecast), zone \in ConcurrentZones :
        /\ arrival' = [arrival EXCEPT ![q] =
                          [@ EXCEPT ![1] = @ \o <<resp, InZone(zone)>>]]
        /\ FinishRequest(q, TravelForecastOutcome(args[q],
                                locals[Frame(q)].currentResponse, resp, zone))
    /\ UNCHANGED <<server, mcpServers, apiKey, tool, args, step, locals, slots, upstream>>

\* getWeatherAlerts of request q: the handler has no await
ConcurrentCallGetWeatherAlerts(q) ==
    /\ server = "weather"
    /\ \E a \in Opt("destination", {"Tokyo"}) :
        Answer(q, "get_weather_alerts", a, <<>>, getWeatherAlerts(a, apiKey))

\* compareDestinationWeather(a) as a whole: in[1] holds the draws of the mock
\* data, or in[i] the response of the GET /weather of destination i
compareDestinationWeather(a, key, in) ==
    IF ~Has(a, "destinations")
    THEN TypeError("Cannot read properties of undefined (reading 'map')")
    ELSE Result([i \in DOMAIN a.destinations |->
            IF ~key THEN MockWeatherEntry(a, i, in[1][1].d)
            ELSE WeatherBranchEntry(a.destinations[i], in[i][1])])

ConcurrentWeatherCompareArgs ==
    {[destinations |-> <<"Paris", "Tokyo">>, date |-> DayString(1)],
     [date |-> DayString(1)]}

\* compareDestinationWeather of request q up to its await of Promise.all
ConcurrentCallCompareDestinationWeather(q) ==
    /\ server = "weather"
    /\ \E a \in ConcurrentWeatherCompareArgs :
        IF ~Has(a, "destinations")
        THEN Answer(q, "compare_destination_weather", a, <<>>,
                    TypeError("Cannot read properties of undefined (reading 'map')"))
        ELSE IF ~apiKey
        THEN \E d \in ConcurrentDrawStreams :
                Start(q, "compare_destination_weather", a, Empty,
                      [i \in 1..Len(a.destinations) |->
                          Fulfilled(MockWeatherEntry(a, i, d))],
                      0, <<<<DrawnStream(d)>>>>)
        ELSE Start(q, "compare_destination_weather", a,
                   [branches |-> [i \in 1..Len(a.destinations) |-> [at |-> 1]]],
                   [i \in 1..Len(a.destinations) |-> Pending],
                   Len(a.destinations), NoInputs(Len(a.destinations)))

\* the branch of destination i of request q ends: with the response of its
\* GET /weather, or in its catch with the placeholder
ConcurrentWeatherBranchSettle(q, i) ==
    /\ server = "weather"
    /\ Awaits(q, "compare_destination_weather")
    /\ Has(args[q], "destinations") /\ i \in DOMAIN args[q].destinations
    /\ BranchWaits(q, i)
    /\ \E resp \in ConcurrentResponses(UpstreamWeather) :
        /\ arrival' = Noted(q, i, resp)
        /\ slots' = [slots EXCEPT ![Frame(q)] =
              Fulfil(slots[Frame(q)], i, WeatherBranchEntry(args[q].destinations[i], resp))]
    /\ UNCHANGED <<server, mcpServers, apiKey, pc, tool, args, step, locals, outcome, upstream, lookups>>

\* Promise.all of request q resolves: the entries are returned in the order
\* of the promises
ConcurrentWeatherCompareJoin(q) ==
    /\ server = "weather"
    /\ Awaits(q, "compare_destination_weather")
    /\ Joined(q, Len(args[q].destinations))
    /\ FinishRequest(q, Result(Values(slots[Frame(q)])))
    /\ UNCHANGED <<server, mcpServers, apiKey, tool, args, step, locals, slots, upstream, arrival>>

\* ------------------------------------------------------- the currency server
ConcurrentConvertArgs ==
    {[from |-> "USD", to |-> "EUR", amount |-> 100],
     [from |-> "USD", to |-> "CHF"],
     [from |-> "USD", to |-> "toString", amount |-> 100]}

\* convertCurrency of request q up to its await: GET /{from} is sent
ConcurrentCallConvertCurrency(q) ==
    /\ server = "currency"
    /\ \E a \in ConcurrentConvertArgs :
        Start(q, "convert_currency", a, Empty, <<>>, 1, NoInputs(1))

\* the response of GET /{from} of request q arrives
ConcurrentConvertCurrencyRespond(q) ==
    /\ server = "currency"
    /\ Awaits(q, "convert_currency")
    /\ \E resp \in ConcurrentResponses(UpstreamRates) :
        /\ arrival' = Noted(q, 1, resp)
        /\ FinishRequest(q, convertCurrency(args[q], resp))
    /\ UNCHANGED <<server, mcpServers, apiKey, tool, args, step, locals, slots, upstream>>

\* getDestinationCurrency of request q: the handler has no await
ConcurrentCallGetDestinationCurrency(q) ==
    /\ server = "currency"
    /\ \E a \in Opt("destination", {"Tokyo", "Atlantis", "constructor"}) :
        Answer(q, "get_destination_currency", a, <<>>,
               Result(Stringify(getDestinationCurrency(a))))

\* getTravelBudgetConversion(a) as a whole; in[i] holds the response of the
\* GET of the branch of destination i
getTravelBudgetConversion(a, in) ==
    IF ~Has(a, "destinations")
    THEN TypeError("Cannot read properties of undefined (reading 'map')")
    ELSE Result([i \in DOMAIN a.destinations |->
            LET dest == a.destinations[i] IN
            IF BudgetParseThrows(dest)
            THEN Placeholder(dest, "Unable to convert currency")
            ELSE LET converted == convertCurrency(BudgetConvertArgs(a, dest), in[i][1])
                 IN IF converted.kind = "result"
                    THEN BudgetEntry(dest, converted.value)
                    ELSE Placeholder(dest, "Unable to convert currency")])

ConcurrentBudgetArgs ==
    {[budget |-> 100, homeCurrency |-> "EUR", destinations |-> <<"Paris", "Tokyo">>],
     [budget |-> 100, destinations |-> <<"constructor">>],
     [budget |-> 100]}

\* getTravelBudgetConversion of request q up to its await of Promise.all:
\* every branch has called getDestinationCurrency and waits for it
ConcurrentCallGetTravelBudgetConversion(q) ==
    /\ server = "currency"
    /\ \E a \in ConcurrentBudgetArgs :
        IF ~Has(a, "destinations")
        THEN Answer(q, "get_travel_budget_conversion", a, <<>>,
                    TypeError("Cannot read properties of undefined (reading 'map')"))
        ELSE Start(q, "get_travel_budget_conversion", a,
                   [branches |-> [i \in 1..Len(a.destinations) |-> [at |-> 1]]],
                   [i \in 1..Len(a.destinations) |-> Pending],
                   0, NoInputs(Len(a.destinations)))

\* branch i of the getTravelBudgetConversion of request q waits at the await
\* numbered at
ConcurrentBudgetBranchAt(q, i, at) ==
    /\ server = "currency"
    /\ Awaits(q, "get_travel_budget_conversion")
    /\ Has(args[q], "destinations") /\ i \in DOMAIN args[q].destinations
    /\ BranchWaits(q, i)
    /\ locals[Frame(q)].branches[i].at = at

\* the branch of destination i of request q resumes after its await of
\* getDestinationCurrency: JSON.parse throws and the catch returns the
\* placeholder, or convertCurrency is called and sends GET /{homeCurrency}
ConcurrentBudgetBranchResume(q, i) ==
    /\ ConcurrentBudgetBranchAt(q, i, 1)
    /\ LET dest == args[q].destinations[i] IN
       IF BudgetParseThrows(dest)
       THEN /\ slots' = [slots EXCEPT ![Frame(q)] =
                 Fulfil(slots[Frame(q)], i, Placeholder(dest, "Unable to convert currency"))]
            /\ UNCHANGED <<locals, upstream>>
       ELSE /\ locals' = BranchMoved(q, i, [at |-> 2])
            /\ upstream' = [upstream EXCEPT ![q] = upstream[q] + 1]
            /\ UNCHANGED slots
    /\ UNCHANGED <<server, mcpServers, apiKey, pc, tool, args, step, outcome, lookups, arrival>>

\* the response of the GET of branch i of request q arrives: the
\* convertCurrency call of the branch resumes and returns its quote or throws
ConcurrentBudgetBranchRespond(q, i) ==
    /\ ConcurrentBudgetBranchAt(q, i, 2)
    /\ \E resp \in ConcurrentResponses(UpstreamRates) :
        /\ arrival' = Noted(q, i, resp)
        /\ locals' = BranchMoved(q, i,
              [at |-> 3,
               converted |-> convertCurrency(
                   BudgetConvertArgs(args[q], args[q].destinations[i]), resp)])
    /\ UNCHANGED <<server, mcpServers, apiKey, pc, tool, args, step, slots, outcome, upstream, lookups>>

\* the branch of destination i of request q resumes after its await of
\* convertCurrency and ends: with the entry made from the quote, or in its
\* catch with the placeholder
ConcurrentBudgetBranchSettle(q, i) ==
    /\ ConcurrentBudgetBranchAt(q, i, 3)
    /\ LET dest == args[q].destinations[i]
           b == locals[Frame(q)].branches[i]
       IN slots' = [slots EXCEPT ![Frame(q)] =
              Fulfil(slots[Frame(q)], i,
                     IF b.converted.kind = "result"
                     THEN BudgetEntry(dest, b.converted.value)
                     ELSE Placeholder(dest, "Unable to convert currency"))]
    /\ UNCHANGED <<server, mcpServers, apiKey, pc, tool, args, step, locals, outcome, upstream, lookups, arrival>>

\* Promise.all of request q resolves: the entries are returned in the order
\* of the promises
ConcurrentBudgetJoin(q) ==
    /\ server = "currency"
    /\ Awaits(q, "get_travel_budget_conversion")
    /\ Joined(q, Len(args[q].destinations))
    /\ FinishRequest(q, Result(Values(slots[Frame(q)])))
    /\ UNCHANGED <<server, mcpServers, apiKey, tool, args, step, locals, slots, upstream, arrival>>

ConcurrentTrendsArgs == {[from |-> "USD", to |-> "EUR", days |-> 14]}

\* getCurrencyTrends of request q: the handler has no await
ConcurrentCallGetCurrencyTrends(q) ==
    /\ server = "currency"
    /\ \E a \in ConcurrentTrendsArgs, clock \in ConcurrentClocks,
          d \in ConcurrentDrawStreams, err \in RoundingErrors :
        Answer(q, "get_currency_trends", a,
               <<AtClock(clock), DrawnStream(d), Rounded(err)>>,
               getCurrencyTrends(a, clock, d, err))

\* ---------------------------------------------------- the translation server
ConcurrentTranslateArgs ==
    {[text |-> "Hello", targetLanguage |-> "es"],
     [text |-> "Good night", targetLanguage |-> "it", sourceLanguage |-> "en"],
     [text |-> "Hello"]}

\* translateText of request q up to its await
ConcurrentCallTranslateText(q) ==
    /\ server = "translation"
    /\ \E a \in ConcurrentTranslateArgs :
        IF ~apiKey
        THEN Answer(q, "translate_text", a, <<>>, translateTextMock(a))
        ELSE Start(q, "translate_text", a, Empty, <<>>, 1, NoInputs(1))

\* the response of POST '' of request q arrives
ConcurrentTranslateTextRespond(q) ==
    /\ server = "translation"
    /\ Awaits(q, "translate_text")
    /\ \E resp \in ConcurrentResponses(UpstreamTranslations) :
        /\ arrival' = Noted(q, 1, resp)
        /\ FinishRequest(q, translateText(args[q], resp))
    /\ UNCHANGED <<server, mcpServers, apiKey, tool, args, step, locals, slots, upstream>>

\* detectLanguage of request q up to its await
ConcurrentCallDetectLanguage(q) ==
    /\ server = "translation"
    /\ \E a \in Opt("text", {"Hola"}) :
        IF ~apiKey
        THEN Answer(q, "detect_language", a, <<>>, detectLanguageMock(a))
        ELSE Start(q, "detect_language", a, Empty, <<>>, 1, NoInputs(1))

\* the response of POST '/detect' of request q arrives
ConcurrentDetectLanguageRespond(q) ==
    /\ server = "translation"
    /\ Awaits(q, "detect_language")
    /\ \E resp \in ConcurrentResponses(UpstreamDetections) :
        /\ arrival' = Noted(q, 1, resp)
        /\ FinishRequest(q, detectLanguage(args[q], resp))
    /\ UNCHANGED <<server, mcpServers, apiKey, tool, args, step, locals, slots, upstream>>

\* getTravelPhrases of request q: the handler has no await
ConcurrentCallGetTravelPhrases(q) ==
    /\ server = "translation"
    /\ \E a \in {[language |-> "es", category |-> "emergency"], [language |-> "it"],
                 [category |-> "basic"]} :
        Answer(q, "get_travel_phrases", a, <<>>, getTravelPhrases(a))

\* translateDestinationInfo of request q: the handler has no await
ConcurrentCallTranslateDestinationInfo(q) ==
    /\ server = "translation"
    /\ \E a \in {[destination |-> "Tokyo", targetLanguage |-> "es"],
                 [destination |-> "Tokyo", contentType |-> "menu"]} :
        Answer(q, "translate_destination_info", a, <<>>, translateDestinationInfo(a))

\* ------------------------------------------------------------ the web server
\* the keys of mcpServers once startMCPServers has run, in insertion order
StartedServers ==
    <<"travel-orchestrator", "weather-server", "currency-server",
      "translation-server">>

\* res.status(status).json(body)
HttpResponse(status, body) == [kind |-> "http", status |-> status, body |-> body]

\* { as: o[f] } in a JSON text: a field that is undefined is left out
Field(as, o, f) == IF Has(o, f) THEN as :> o[f] ELSE Empty

\* x || 1 of a number field: undefined and 0 are falsy
OrOne(o, f) == IF Has(o, f) /\ o[f] # 0 THEN o[f] ELSE 1

\* the forecast of the mock responses: a day for startDate and one for endDate
mockForecast(body) ==
    <<[temp |-> 20, conditions |-> "Partly Cloudy"] @@ Field("date", body, "startDate"),
      [temp |-> 25, conditions |-> "Clear"] @@ Field("date", body, "endDate")>>

\* POST /api/plan-trip as a whole; the ratings are counted in tenths
httpPlanTrip(body) ==
    HttpResponse(200,
        Field("destination", body, "destination")
        @@ [weather |-> [current |-> [temp |-> 22, conditions |-> "Sunny",
                                      humidity |-> 65],
                         forecast |-> mockForecast(body)],
            flights |-> <<[airline |-> "Example Airlines", flightNumber |-> "EX123",
                           price |-> 450 * OrOne(body, "travelers"),
                           duration |-> "3h 30m"]>>,
            hotels |-> <<[name |-> "Grand Hotel Example", rating |-> 45,
                          pricePerNight |-> 150, totalPrice |-> 150 * 3,
                          amenities |-> <<"WiFi", "Pool", "Gym", "Restaurant">>]>>,
            activities |-> <<[name |-> "City Walking Tour", type |-> "sightseeing",
                              price |-> 25, duration |-> "3 hours", rating |-> 48]>>,
            totalCost |-> 1500,
            currency |-> "USD",
            language |-> "English",
            safetyRating |-> 45])

HttpPlanBodies ==
    {[destination |-> "Tokyo", startDate |-> DayString(1), endDate |-> DayString(2),
      travelers |-> 2],
     [destination |-> "Paris", travelers |-> 0],
     Empty}

\* POST /api/plan-trip of request q: the handler has no await
HttpPlanTrip(q) ==
    /\ server = "http"
    /\ \E body \in HttpPlanBodies :
        Answer(q, "POST /api/plan-trip", body, <<>>, httpPlanTrip(body))

HttpCompareBodies == {[destinations |-> <<"Paris", "Tokyo">>], Empty}

\* mockComparisons; index counts from 0, safetyRating = 4 + Math.random() is
\* counted in 1/RandomSteps
mockComparisons(destinations, draws) ==
    [k \in DOMAIN destinations |->
        [destination |-> destinations[k],
         weather |-> [temp |-> 20 + (k - 1) * 2, conditions |-> "Sunny"],
         averageHotelCost |-> 100 + (k - 1) * 25,
         safetyRating |-> 4 * RandomSteps + draws[k].r,
         activityScore |-> 5 + (k - 1),
         overallScore |-> 80 + (k - 1) * 5]]

\* POST /api/compare-destinations as a whole, with the draws made
httpCompareDestinations(body, draws) ==
    IF ~Has(body, "destinations")
    THEN HttpResponse(500, [error |-> "Failed to compare destinations"])
    ELSE HttpResponse(200, mockComparisons(body.destinations, draws))

\* GET /api/health of request q: the handler has no await
HttpHealth(q) ==
    /\ server = "http"
    /\ Answer(q, "GET /api/health", Empty, <<>>,
              HttpResponse(200, [status |-> "ok", servers |-> mcpServers]))

\* POST /api/compare-destinations of request q: the handler has no await
HttpCompareDestinations(q) ==
    /\ server = "http"
    /\ \E body \in HttpCompareBodies :
        \E draws \in [1..(IF Has(body, "destinations")
                          THEN Len(body.destinations) ELSE 0)
                         -> {Drawn(r) : r \in ConcurrentDraws}] :
            Answer(q, "POST /api/compare-destinations", body, draws,
                   httpCompareDestinations(body, draws))

\* POST /api/get-weather as a whole
httpGetWeather(body) ==
    HttpResponse(200,
        Field("destination", body, "destination")
        @@ [current |-> [temp |-> 22, conditions |-> "Sunny", humidity |-> 65],
            forecast |-> mockForecast(body)])

HttpWeatherBodies ==
    {[destination |-> "Tokyo", startDate |-> DayString(1), endDate |-> DayString(2)],
     [destination |-> "Paris"]}

\* POST /api/get-weather of request q: the handler has no await
HttpGetWeather(q) ==
    /\ server = "http"
    /\ \E body \in HttpWeatherBodies :
        Answer(q, "POST /api/get-weather", body, <<>>, httpGetWeather(body))

\* POST /api/convert-currency as a whole; the rate
\* 0.85 and the converted amount are counted in hundredths, and the NaN of an
\* undefined amount is null in the JSON text
httpConvertCurrency(body) ==
    HttpResponse(200,
        Field("from", body, "from") @@ Field("to", body, "to")
        @@ Field("amount", body, "amount")
        @@ [convertedAmount |-> IF Has(body, "amount") THEN body.amount * 85 ELSE Null,
            exchangeRate |-> 85,
            timestamp |-> IsoNow])

HttpConvertBodies ==
    {[from |-> "USD", to |-> "EUR", amount |-> 100],
     [from |-> "USD", to |-> "JPY"]}

\* POST /api/convert-currency of request q: the handler has no await
HttpConvertCurrency(q) ==
    /\ server = "http"
    /\ \E body \in HttpConvertBodies :
        Answer(q, "POST /api/convert-currency", body, <<>>, httpConvertCurrency(body))

\* POST /api/translate as a whole: toUpperCase of an undefined targetLanguage
\* throws and the catch answers 500; confidence 0.95 is counted in hundredths
httpTranslate(body) ==
    IF ~Has(body, "targetLanguage")
    THEN HttpResponse(500, [error |-> "Failed to translate text"])
    ELSE HttpResponse(200,
            Field("originalText", body, "text")
            @@ [translatedText |-> "[" \o ToUpperCase(body.targetLanguage) \o "] "
                                   \o Template(body, "text"),
                sourceLanguage |-> OrElse(body, "sourceLanguage", "en"),
                targetLanguage |-> body.targetLanguage,
                confidence100 |-> 95])

HttpTranslateBodies ==
    {[text |-> "Hello", targetLanguage |-> "es"],
     [text |-> "Hello", targetLanguage |-> "ja", sourceLanguage |-> ""],
     [text |-> "Hello"]}

\* POST /api/translate of request q: the handler has no await
HttpTranslate(q) ==
    /\ server = "http"
    /\ \E body \in HttpTranslateBodies :
        Answer(q, "POST /api/translate", body, <<>>, httpTranslate(body))

\* the response of request q has been sent: nothing of the request is kept
ConcurrentReturn(q) ==
    /\ pc[q] = "done"
    /\ pc' = [pc EXCEPT ![q] = "idle"]
    /\ tool' = [tool EXCEPT ![q] = ""]
    /\ args' = [args EXCEPT ![q] = Empty]
    /\ step' = [step EXCEPT ![q] = 0]
    /\ locals' = [locals EXCEPT ![Frame(q)] = Empty]
    /\ slots' = [slots EXCEPT ![Frame(q)] = <<>>]
    /\ outcome' = [outcome EXCEPT ![q] = NoOutcome]
    /\ upstream' = [upstream EXCEPT ![q] = 0]
    /\ lookups' = [lookups EXCEPT ![q] = FALSE]
    /\ arrival' = [arrival EXCEPT ![q] = <<>>]
    /\ UNCHANGED <<server, mcpServers, apiKey>>

InitConcurrent ==
    /\ server \in Servers \cup {"http"}
    /\ mcpServers = (IF server = "http" THEN StartedServers ELSE <<>>)
    /\ apiKey \in (IF server \in {"weather", "translation"} THEN BOOLEAN ELSE {FALSE})
    /\ pc = [q \in Requests |-> "idle"]
    /\ tool = [q \in Requests |-> ""]
    /\ args = [q \in Requests |-> Empty]
    /\ step = [q \in Requests |-> 0]
    /\ locals = [q \in Requests |-> Empty]
    /\ slots = [q \in Requests |-> <<>>]
    /\ outcome = [q \in Requests |-> NoOutcome]
    /\ upstream = [q \in Requests |-> 0]
    /\ lookups = [q \in Requests |-> FALSE]
    /\ arrival = [q \in Requests |-> <<>>]

NextConcurrent ==
    \E q \in Requests :
        \/ ConcurrentCallPlanTrip(q)
        \/ ConcurrentPlanTripResume(q)
        \/ ConcurrentCallGetTravelInsights(q)
        \/ ConcurrentTravelInsightsResume(q)
        \/ ConcurrentCallCompareDestinations(q)
        \/ \E i \in 1..MaxDests : ConcurrentCompareBranchResume(q, i)
        \/ \E i \in 1..MaxDests : ConcurrentCompareBranchSettle(q, i)
        \/ ConcurrentCompareReject(q)
        \/ ConcurrentCompareJoin(q)
        \/ ConcurrentCallGetTravelWeather(q)
        \/ ConcurrentTravelWeatherCurrent(q)
        \/ ConcurrentTravelWeatherForecast(q)
        \/ ConcurrentCallGetWeatherAlerts(q)
        \/ ConcurrentCallCompareDestinationWeather(q)
        \/ \E i \in 1..MaxDests : ConcurrentWeatherBranchSettle(q, i)
        \/ ConcurrentWeatherCompareJoin(q)
        \/ ConcurrentCallConvertCurrency(q)
        \/ ConcurrentConvertCurrencyRespond(q)
        \/ ConcurrentCallGetDestinationCurrency(q)
        \/ ConcurrentCallGetTravelBudgetConversion(q)
        \/ \E i \in 1..MaxDests : ConcurrentBudgetBranchResume(q, i)
        \/ \E i \in 1..MaxDests : ConcurrentBudgetBranchRespond(q, i)
        \/ \E i \in 1..MaxDests : ConcurrentBudgetBranchSettle(q, i)
        \/ ConcurrentBudgetJoin(q)
        \/ ConcurrentCallGetCurrencyTrends(q)
        \/ ConcurrentCallTranslateText(q)
        \/ ConcurrentTranslateTextRespond(q)
        \/ ConcurrentCallDetectLanguage(q)
        \/ ConcurrentDetectLanguageRespond(q)
        \/ ConcurrentCallGetTravelPhrases(q)
        \/ ConcurrentCallTranslateDestinationInfo(q)
        \/ ConcurrentCallUnknownTool(q)
        \/ HttpHealth(q)
        \/ HttpPlanTrip(q)
        \/ HttpCompareDestinations(q)
        \/ HttpGetWeather(q)
        \/ HttpConvertCurrency(q)
        \/ HttpTranslate(q)
        \/ ConcurrentReturn(q)

SpecConcurrent == InitConcurrent /\ [][NextConcurrent]_vars

\* ------------------------------------------- the registry of sub-processes
\* The life of the web server process: pc is "created" once the module has
\* been loaded, "listening" once the callback of app.listen has run and
\* "exited" after process.exit; locals[n] is the state of the sub-process
\* spawned under the name n, lookups the names kill() has been called for and
\* outcome the last response of GET /api/health.
ExitCodes == {0, 1}

\* (mutant of Closed) the entry of a sub-process that exits is deleted
ClosedAndForgotten(registry, name) == SelectSeq(registry, LAMBDA n : n # name)
\* serverProcess.on('close', ...): the exit is logged, the registry is left
\* as it is
Closed(registry, name) == registry

\* app.listen succeeds and its callback runs startMCPServers: each of the four
\* servers is spawned and registered under its name
Listen ==
    /\ server = "http" /\ pc = "created"
    /\ pc' = "listening"
    /\ mcpServers' = mcpServers \o StartedServers
    /\ locals' = [n \in Range(StartedServers) |-> [state |-> "running"]]
    /\ UNCHANGED <<server, apiKey, tool, args, step, slots, outcome, upstream, lookups, arrival>>

\* a sub-process exits with a code: its 'close' listener runs
ChildCloses ==
    /\ server = "http" /\ pc = "listening"
    /\ \E n \in DOMAIN locals, code \in ExitCodes :
        /\ locals[n].state = "running"
        /\ locals' = [locals EXCEPT ![n] = [state |-> "exited", code |-> code]]
        /\ mcpServers' = Closed(mcpServers, n)
    /\ UNCHANGED <<server, apiKey, pc, tool, args, step, slots, outcome, upstream, lookups, arrival>>

\* GET /api/health is answered
RegistryHealth ==
    /\ server = "http" /\ pc = "listening"
    /\ tool' = "GET /api/health"
    /\ outcome' = HttpResponse(200, [status |-> "ok", servers |-> mcpServers])
    /\ UNCHANGED <<server, mcpServers, apiKey, pc, args, step, locals, slots, upstream, lookups, arrival>>

\* SIGTERM: kill() is called for every value of the registry, then the
\* process exits
Sigterm ==
    /\ server = "http" /\ pc \in {"created", "listening"}
    /\ lookups' = mcpServers
    /\ pc' = "exited"
    /\ UNCHANGED <<server, mcpServers, apiKey, tool, args, step, locals, slots, outcome, upstream, arrival>>

InitRegistry ==
    /\ server = "http"
    /\ mcpServers = <<>>
    /\ apiKey = FALSE
    /\ pc = "created"
    /\ tool = ""
    /\ args = Empty
    /\ step = 0
    /\ locals = Empty
    /\ slots = <<>>
    /\ outcome = NoOutcome
    /\ upstream = 0
    /\ lookups = <<>>
    /\ arrival = <<>>

NextRegistry ==
    \/ Listen
    \/ ChildCloses
    \/ RegistryHealth
    \/ Sigterm

SpecRegistry == InitRegistry /\ [][NextRegistry]_vars

\* ================================================================= claims
Done(t) == pc = "done" /\ tool = t
Returned(t) == Done(t) /\ outcome.kind = "result"

\* the sum of f over the entries of a sequence, NaN when an entry is NaN
RECURSIVE SumOf(_, _)
SumOf(s, f) == IF s = <<>> THEN N(0) ELSE NumAdd(Head(s)[f], SumOf(Tail(s), f))
RECURSIVE IntSumOf(_, _)
IntSumOf(s, f) == IF s = <<>> THEN 0 ELSE Head(s)[f] + IntSumOf(Tail(s), f)

\* C1: the totalCost of every returned TripPlan is the sum of its flights'
\* prices, plus the sum of its hotels' totalPrices, plus the sum of its
\* activities' prices times travelers, and nothing else
C1_TotalCost ==
    Returned("plan_trip") =>
        LET p == outcome.value IN
        p.totalCost =
            NumAdd(N(IntSumOf(p.flights, "price")
                     + IntSumOf(p.activities, "price") * Travelers(args)),
                   SumOf(p.hotels, "totalPrice"))
C1_Witness ==
    /\ Returned("plan_trip")
    /\ Has(args, "travelers") /\ args.travelers = 2
    /\ Len(outcome.value.activities) = 2
    /\ outcome.value.totalCost = N(1740 + 540 + 140)

\* C2: the list compare_destinations returns is sorted by overallScore, descending
C2_SortedDescending ==
    Returned("compare_destinations") =>
        \A i \in 1..(Len(outcome.value) - 1) :
            outcome.value[i].overallScore >= outcome.value[i + 1].overallScore
C2_Witness ==
    /\ Returned("compare_destinations")
    /\ Len(outcome.value) = 3
    /\ outcome.value[1].overallScore > outcome.value[3].overallScore
    /\ Values(slots)[1].overallScore < Values(slots)[3].overallScore

\* the place of a destination in the destinations given
InputIndex(d) == CHOOSE i \in DOMAIN args.destinations : args.destinations[i] = d

\* C3: entries of the list compare_destinations returns that have the same
\* overallScore are in the order of the destinations given
C3_StableOnTies ==
    Returned("compare_destinations") =>
        \A p, q \in DOMAIN outcome.value :
            (p < q /\ outcome.value[p].overallScore = outcome.value[q].overallScore)
                => InputIndex(outcome.value[p].destination)
                       < InputIndex(outcome.value[q].destination)
C3_Witness ==
    /\ Returned("compare_destinations")
    /\ Len(outcome.value) = 3
    /\ outcome.value[1].overallScore = outcome.value[2].overallScore
    /\ outcome.value[1].destination = args.destinations[2]
    /\ outcome.value[2].destination = args.destinations[3]
    /\ outcome.value[3].destination = args.destinations[1]

\* C4: for a safety rating in [0, 5], a hotel cost >= 0, an activity count >= 0
\* and any weather preference string, calculateOverallScore is within 0..100
C4_ScoreInRange ==
    (Done("calculateOverallScore")
     /\ (Has(args.criteria, "weather") => args.criteria.weather.t = "string"))
        => outcome.kind = "result" /\ outcome.value \in 0..100
C4_Witness ==
    /\ Done("calculateOverallScore")
    /\ args.hotelCost = 0 /\ args.safety2 = 10 /\ args.activities = MaxActivities
    /\ HasWeatherPref(args.criteria)
    /\ outcome = Result(100)

\* both dates parse and endDate is not after startDate
EndNotAfterStart(a) ==
    /\ ~NewDate(a, "startDate").nan /\ ~NewDate(a, "endDate").nan
    /\ NewDate(a, "endDate").v <= NewDate(a, "startDate").v

\* C5: a plan_trip request whose endDate is not after its startDate is
\* rejected with a validation error: no lookup is started, no plan is returned
C5_RejectsEndNotAfterStart ==
    (tool = "plan_trip" /\ EndNotAfterStart(args)) =>
        /\ pc = "done"
        /\ outcome = McpError("InvalidParams", "End date must be after start date")
        /\ lookups = <<>>
        /\ locals = Empty
C5_Witness ==
    /\ Done("plan_trip")
    /\ Has(args, "startDate") /\ Has(args, "endDate")
    /\ args.startDate = args.endDate
    /\ outcome.kind = "McpError"

\* a required field is missing, or a date given is not a calendar date
MissingOrInvalid(a) ==
    \/ ~Has(a, "destination") \/ ~Has(a, "startDate") \/ ~Has(a, "endDate")
    \/ NewDate(a, "startDate").nan \/ NewDate(a, "endDate").nan

\* C6: a plan_trip request with a required field missing or with a date that
\* is no calendar date is rejected with a validation error and gets no plan
C6_RejectsMissingOrInvalid ==
    (Done("plan_trip") /\ MissingOrInvalid(args)) => outcome.kind = "McpError"

\* the tools that fan one provider call out per destination
AggregationTools == {"compare_destination_weather", "get_travel_budget_conversion"}

\* C7: in compare_destination_weather and get_travel_budget_conversion the
\* i-th entry of the result is the entry of the i-th input destination,
\* whatever the order the provider calls of the destinations complete in
C7_ResultInInputOrder ==
    (tool \in AggregationTools /\ Returned(tool)) =>
        /\ Len(outcome.value) = Len(args.destinations)
        /\ \A i \in DOMAIN outcome.value :
              outcome.value[i].destination = args.destinations[i]
\* the branch of the last of two destinations ended first, with the quote of
\* its request
C7_Witness ==
    /\ Returned("get_travel_budget_conversion")
    /\ Len(args.destinations) = 2
    /\ arrival[1].i = 2 /\ arrival[2].i = 1
    /\ arrival[1].resp.kind = "ok"
    /\ outcome.value[2].destination = args.destinations[2]
    /\ Has(outcome.value[2], "budgetInLocalCurrency")

\* the response the provider call of destination i got
ResponseOf(i) == arrival[CHOOSE k \in DOMAIN arrival : arrival[k].i = i].resp

\* the provider call of destination i gave what its entry is made from
ProviderCallSucceeded(i) ==
    LET resp == ResponseOf(i) IN
    IF tool = "compare_destination_weather"
    THEN resp.kind = "none" \/ (resp.kind = "ok" /\ resp.data # Empty)
    ELSE LET info == getDestinationCurrency([destination |-> args.destinations[i]])
         IN /\ resp.kind = "ok"
            /\ Has(resp.data, "rates")
            /\ Has(info, "code")
            /\ Has(resp.data.rates, info.code)
            /\ resp.data.rates[info.code] # 0

\* the entry e is the success payload of destination i
SuccessPayload(e, i) ==
    LET resp == ResponseOf(i) IN
    IF tool = "compare_destination_weather"
    THEN /\ DOMAIN e = {"destination", "temperature", "conditions", "humidity",
                        "windSpeed"}
         /\ resp.kind = "ok" => /\ e.temperature = resp.data.main.temp
                                /\ e.humidity = resp.data.main.humidity
    ELSE /\ DOMAIN e = {"destination", "localCurrency", "budgetInLocalCurrency",
                        "exchangeRate"}
         /\ e.exchangeRate = resp.data.rates[e.localCurrency.code]
         /\ e.budgetInLocalCurrency =
               (IF Has(args, "budget") THEN args.budget ELSE 1) * e.exchangeRate

\* C8: in compare_destination_weather and get_travel_budget_conversion, when
\* the provider call of some destinations fails the result still has one
\* entry per input destination: the slot of a failed destination holds
\* {destination, error}, the slot of every other one its success payload
C8_FailedSlotIsPlaceholder ==
    (tool \in AggregationTools /\ Returned(tool)) =>
        /\ Len(outcome.value) = Len(args.destinations)
        /\ \A i \in DOMAIN outcome.value :
              LET e == outcome.value[i] IN
              /\ Has(e, "destination") /\ e.destination = args.destinations[i]
              /\ IF ProviderCallSucceeded(i)
                 THEN SuccessPayload(e, i)
                 ELSE /\ DOMAIN e = {"destination", "error"}
                      /\ e.error = (IF tool = "compare_destination_weather"
                                    THEN "Unable to fetch weather data"
                                    ELSE "Unable to convert currency")
\* of two destinations of a budget conversion the request of the first failed
\* and that of the second gave a rate: the first slot holds the placeholder,
\* the second the converted budget
C8_Witness ==
    /\ Returned("get_travel_budget_conversion")
    /\ Len(args.destinations) = 2
    /\ ResponseOf(1).kind = "error"
    /\ outcome.value[1] =
          [destination |-> args.destinations[1], error |-> "Unable to convert currency"]
    /\ ResponseOf(2).kind = "ok"
    /\ Has(outcome.value[2], "budgetInLocalCurrency")
    /\ Has(args, "budget")
    /\ outcome.value[2].budgetInLocalCurrency = args.budget * outcome.value[2].exchangeRate

\* C9: in the orchestrator's compare_destinations a lookup that fails for one
\* destination does not abort the operation: the call returns a list with one
\* entry per destination, the failed one being an error placeholder
C9_LookupFailureDoesNotAbort ==
    (Done("compare_destinations") /\ Has(args, "destinations")) =>
        /\ outcome.kind = "result"
        /\ Len(outcome.value) = Len(args.destinations)

\* the servers that call a third-party service
Providers == {"weather", "currency", "translation"}

\* C10: when the credential of a provider is absent, a tool call of that
\* provider sends no request to the upstream service and does not end in an
\* error of the upstream service
C10_MockWithoutCredential ==
    (server \in Providers /\ ~apiKey) =>
        /\ upstream = 0
        /\ outcome.kind \notin {"McpError", "softError"}

\* C11: get_destination_currency never fails: for a destination that is a
\* key of the fixed mapping, in the same case, it returns that entry, and for
\* every other string it returns the default {code: USD, country: Unknown}
C11_MappingOrDefault ==
    (Done("get_destination_currency") /\ Has(args, "destination")) =>
        /\ outcome.kind = "result"
        /\ outcome.value =
              (IF args.destination \in DOMAIN destinationCurrencies
               THEN destinationCurrencies[args.destination]
               ELSE DefaultCurrency)

\* the rate table of the response has a rate > 0 for the currency asked for
HasPositiveRate ==
    /\ Has(args, "to")
    /\ args.to \in DOMAIN arrival[1].resp.data.rates
    /\ arrival[1].resp.data.rates[args.to] > 0

\* C12: convert_currency returns a quote only when the rate table has a rate
\* > 0 for `to`, then with convertedAmount = amount * rate and originalAmount
\* = amount (amount 1 when omitted); when the table has no rate for the pair
\* the call fails with an error and returns no quote
C12_QuoteOnlyWithRate ==
    (/\ Done("convert_currency")
     /\ arrival[1].resp.kind = "ok"
     /\ Has(arrival[1].resp.data, "rates")) =>
        LET amount == IF Has(args, "amount") THEN args.amount ELSE 1 IN
        IF HasPositiveRate
        THEN /\ outcome.kind = "result"
             /\ outcome.value.exchangeRate.rate = arrival[1].resp.data.rates[args.to]
             /\ outcome.value.convertedAmount =
                    amount * arrival[1].resp.data.rates[args.to]
             /\ outcome.value.originalAmount = amount
        ELSE outcome.kind = "McpError"

\* the calendar day after c
NextCivil(c) ==
    IF c.day < MonthLengths(c.year)[c.month] THEN [c EXCEPT !.day = c.day + 1]
    ELSE IF c.month < 12 THEN [c EXCEPT !.month = c.month + 1, !.day = 1]
    ELSE [year |-> c.year + 1, month |-> 1, day |-> 1]
\* the pairs of a date and the date of the day after it, 2023 to 2025
ConsecutiveDates ==
    {<<IsoDateString(c), IsoDateString(NextCivil(c))>> :
        c \in UNION {UNION {{[year |-> y, month |-> m, day |-> d] :
                                d \in 1..MonthLengths(y)[m]} :
                            m \in 1..12} :
                     y \in 2023..2025}}

\* C13: for days in 7..365 (30 when omitted) get_currency_trends returns
\* exactly `days` entries whose dates are consecutive, ascending and end at
\* today's date, and minRate <= averageRate <= maxRate
C13_TrendsWindow ==
    (Returned("get_currency_trends")
     /\ TrendDays2(args) >= 2 * 7 /\ TrendDays2(args) <= 2 * 365) =>
        LET v == outcome.value IN
        /\ 2 * Len(v.trends) = TrendDays2(args)
        /\ v.trends[Len(v.trends)].date = TrendDate(locals.today, 0)
        /\ \A k \in 1..(Len(v.trends) - 1) :
              <<v.trends[k].date, v.trends[k + 1].date>> \in ConsecutiveDates
        /\ LeAverage(v.minRate, v.averageRate)
        /\ AverageLe(v.averageRate, v.maxRate)
\* the part of C13 that holds of whole days on a clock without a change of
\* the UTC offset: for such calls the window is as the claim says, and the
\* average lies between rates that differ
C13_WholeDaysInUtc ==
    (Returned("get_currency_trends") /\ locals.today.zone = "UTC"
     /\ TrendDays2(args) % 2 = 0) =>
        LET v == outcome.value IN
        /\ 2 * Len(v.trends) = TrendDays2(args)
        /\ v.trends[Len(v.trends)].date = "2024-11-09"
        /\ \A k \in 1..(Len(v.trends) - 1) :
              <<v.trends[k].date, v.trends[k + 1].date>> \in ConsecutiveDates
        /\ v.minRate < v.maxRate =>
              LeAverage(v.minRate, v.averageRate) /\ AverageLe(v.averageRate, v.maxRate)

\* the activities whose type is among the types asked for, all of them when
\* no type is asked for
ActivitiesAskedFor(o, f) ==
    IF Has(o, f) /\ Len(o[f].v) > 0
    THEN SelectSeq(AllActivities, LAMBDA x : \E k \in DOMAIN o[f].v : o[f].v[k] = x.type)
    ELSE AllActivities

\* C14: getActivities returns exactly the activities whose type is in the
\* non-empty list asked for, in their original order, and all activities when
\* the list is absent or empty; for the activities of a TripPlan
\* (preferences.activityTypes) and for the activityScore of a comparison
\* (criteria.activities) alike
C14_ActivitiesFiltered ==
    /\ Returned("plan_trip") =>
          outcome.value.activities =
              ActivitiesAskedFor(Preferences(args), "activityTypes")
    /\ Returned("compare_destinations") =>
          \A i \in DOMAIN outcome.value :
              outcome.value[i].activityScore =
                  Len(ActivitiesAskedFor(Criteria(args), "activities"))
\* two types are asked for, in the other order than the activities have
C14_Witness ==
    /\ Returned("plan_trip")
    /\ Has(Preferences(args), "activityTypes")
    /\ Preferences(args).activityTypes.v = <<"adventure", "sightseeing">>
    /\ Len(outcome.value.activities) = 2
    /\ outcome.value.activities[1].type = "sightseeing"
    /\ outcome.value.activities[2].type = "adventure"

\* C15: for every plan_trip request that passes validation, nights =
\* ceil((endDate - startDate) / 1 day) is at least 1 and every hotel returned
\* has totalPrice = pricePerNight * nights
C15_NightsAtLeastOne ==
    Returned("plan_trip") =>
        /\ ~Nights(args).nan
        /\ Nights(args).v >= 1
        /\ \A i \in DOMAIN outcome.value.hotels :
              outcome.value.hotels[i].totalPrice =
                  N(outcome.value.hotels[i].pricePerNight * Nights(args).v)

\* C16: for every plan_trip request that passes validation and gives no
\* activity preference, the price of each flight is its base price per
\* traveler times travelers (1 when omitted), flights, hotels and activities
\* are not empty, and totalCost is a number > 0
C16_FlightsScaledAndCostPositive ==
    (Returned("plan_trip") /\ ~Has(Preferences(args), "activityTypes")) =>
        LET p == outcome.value IN
        /\ Len(p.flights) = 2
        /\ p.flights[1].price = 450 * Travelers(args)
        /\ p.flights[2].price = 420 * Travelers(args)
        /\ p.hotels # <<>> /\ p.activities # <<>>
        /\ ~p.totalCost.nan
        /\ p.totalCost.v > 0

\* the tools that answer from one or two requests to the upstream service
SingleProviderTools ==
    {"get_travel_weather", "convert_currency", "translate_text", "detect_language"}
\* the last response the call got
LastResponse == arrival[Len(arrival)].resp
\* a 2xx response whose body has none of the fields the handler reads
Malformed(resp) == resp.kind = "ok" /\ resp.data = Empty
\* the message of the upstream service in an axios error
MessageOfUpstream(e) ==
    IF "response" \in DOMAIN e /\ "message" \in DOMAIN e.response.data
    THEN e.response.data.message ELSE e.message

\* C17: a failure of the upstream service (a non-2xx response, a network
\* failure or a malformed payload) during get_travel_weather,
\* convert_currency, translate_text or detect_language ends the call in a
\* McpError whose message carries the upstream message, never in an untyped
\* exception
C17_UpstreamFailureIsMcpError ==
    (/\ tool \in SingleProviderTools /\ pc = "done" /\ arrival # <<>>
     /\ (LastResponse.kind = "error" \/ Malformed(LastResponse))) =>
        /\ outcome.kind = "McpError"
        /\ LastResponse.kind = "error" =>
              \E prefix \in {"Weather API error: ", "Currency conversion error: ",
                             "Translation API error: ",
                             "Language detection API error: "} :
                  outcome.message = prefix \o MessageOfUpstream(LastResponse.error)
\* the part of C17 that holds: a non-2xx response or a network failure ends
\* the call in a McpError whose message carries the upstream message
C17_AxiosErrorIsMcpError ==
    (/\ tool \in SingleProviderTools /\ pc = "done" /\ arrival # <<>>
     /\ LastResponse.kind = "error") =>
        /\ outcome.kind = "McpError" /\ outcome.code = "InternalError"
        /\ \E prefix \in {"Weather API error: ", "Currency conversion error: ",
                          "Translation API error: ",
                          "Language detection API error: "} :
              outcome.message = prefix \o MessageOfUpstream(LastResponse.error)

\* the days from the day of startDate to the day of endDate, both included
DaysOfRange(a) ==
    LET first == NewDate(a, "startDate").v \div HoursPerDay
        last == NewDate(a, "endDate").v \div HoursPerDay
    IN [k \in 1..(last - first + 1) |-> DayString(first + k)]
\* the forecast has one entry for each day of the range, in order
OneEntryPerDay(forecast, a) ==
    /\ Len(forecast) = Len(DaysOfRange(a))
    /\ \A k \in DOMAIN forecast : forecast[k].date = DaysOfRange(a)[k]
\* startDate and endDate are dates and endDate is not before startDate
IsDateRange(a) ==
    /\ ~NewDate(a, "startDate").nan /\ ~NewDate(a, "endDate").nan
    /\ NewDate(a, "startDate").v <= NewDate(a, "endDate").v

\* C19: the forecast of the weather made for a date range startDate..endDate
\* (in the TripPlan of plan_trip and in the mock result of get_travel_weather)
\* has exactly one entry for each day of the range, in chronological order
C19_ForecastPerDay ==
    /\ (Returned("plan_trip") /\ IsDateRange(args)) =>
          OneEntryPerDay(outcome.value.weather.forecast, args)
    /\ (Returned("get_travel_weather") /\ ~apiKey /\ IsDateRange(args)) =>
          OneEntryPerDay(outcome.value.forecast, args)

\* C20: for every destination the currency of the TripPlan plan_trip returns
\* is the code of the CurrencyInfo get_destination_currency returns for it
C20_PlanCurrencyIsDestinationCurrency ==
    (Returned("plan_trip") /\ Has(args, "destination")) =>
        outcome.value.currency =
            getDestinationCurrency([destination |-> args.destination]).code

\* request q has received the inputs its handler takes before it returns a
\* list: two draws for each destination compared, and one response for each
\* GET sent
ReceivedItsInputs(q) ==
    (outcome[q].kind = "result" /\ Has(args[q], "destinations")) =>
        \A i \in DOMAIN args[q].destinations :
            /\ tool[q] = "compare_destinations" =>
                  i \in DOMAIN arrival[q] /\ Len(arrival[q][i]) = 2
            /\ (tool[q] = "compare_destination_weather" /\ apiKey) =>
                  i \in DOMAIN arrival[q] /\ Len(arrival[q][i]) = 1
            /\ tool[q] = "get_travel_budget_conversion" =>
                  /\ i \in DOMAIN arrival[q]
                  /\ Len(arrival[q][i]) =
                        (IF BudgetParseThrows(args[q].destinations[i]) THEN 0 ELSE 1)

\* the outcome of request q had it run alone: what its handler computes
\* from the arguments, the responses and the draws of the request, and for
\* the health route from the registry as it was when the web server had
\* started
RequestAlone(q) ==
    LET a == args[q]
        in == arrival[q]
    IN CASE tool[q] = "plan_trip" ->
                planTrip(a, IF in[1] = <<>> THEN 0 ELSE in[1][1].r)
         [] tool[q] = "get_travel_insights" -> getTravelInsights(a)
         [] tool[q] = "compare_destinations" -> compareDestinations(a, in)
         [] tool[q] = "unknown_tool" ->
                McpError("MethodNotFound", "Unknown tool: unknown_tool")
         [] tool[q] = "get_travel_weather" -> getTravelWeather(a, apiKey, in[1])
         [] tool[q] = "get_weather_alerts" -> getWeatherAlerts(a, apiKey)
         [] tool[q] = "compare_destination_weather" ->
                compareDestinationWeather(a, apiKey, in)
         [] tool[q] = "convert_currency" -> convertCurrency(a, in[1][1])
         [] tool[q] = "get_destination_currency" ->
                Result(Stringify(getDestinationCurrency(a)))
         [] tool[q] = "get_travel_budget_conversion" ->
                getTravelBudgetConversion(a, in)
         [] tool[q] = "get_currency_trends" ->
                getCurrencyTrends(a, in[1][1].clock, in[1][2].d, in[1][3].err)
         [] tool[q] = "translate_text" ->
                IF apiKey THEN translateText(a, in[1][1]) ELSE translateTextMock(a)
         [] tool[q] = "detect_language" ->
                IF apiKey THEN detectLanguage(a, in[1][1]) ELSE detectLanguageMock(a)
         [] tool[q] = "get_travel_phrases" -> getTravelPhrases(a)
         [] tool[q] = "translate_destination_info" -> translateDestinationInfo(a)
         [] tool[q] = "GET /api/health" ->
                HttpResponse(200, [status |-> "ok", servers |-> StartedServers])
         [] tool[q] = "POST /api/plan-trip" -> httpPlanTrip(a)
         [] tool[q] = "POST /api/compare-destinations" ->
                httpCompareDestinations(a, in[1])
         [] tool[q] = "POST /api/get-weather" -> httpGetWeather(a)
         [] tool[q] = "POST /api/convert-currency" -> httpConvertCurrency(a)
         [] tool[q] = "POST /api/translate" -> httpTranslate(a)

\* what the process holds for request q
RequestState(q) ==
    <<pc[q], tool[q], args[q], step[q], locals[q], slots[q], outcome[q],
      upstream[q], lookups[q], arrival[q]>>

\* C18: no tool-call handler and no route handler changes state that outlives
\* its request: whatever the interleaving of the requests in flight, a step
\* leaves the process' own state (the registry of the web server, the server
\* and its credential) as it was and changes what the process holds for at
\* most one request, and the result of a request is what the request gives
\* from its own arguments, responses and draws when it runs alone
C18_RequestsIndependent ==
    /\ [](/\ mcpServers = (IF server = "http" THEN StartedServers ELSE <<>>)
          /\ \A q \in Requests :
                pc[q] = "done" =>
                    /\ ReceivedItsInputs(q)
                    /\ outcome[q] = Dispatch(RequestAlone(q)))
    /\ [][/\ <<server, mcpServers, apiKey>>' = <<server, mcpServers, apiKey>>
          /\ \A q1, q2 \in Requests :
                (/\ RequestState(q1)' # RequestState(q1)
                 /\ RequestState(q2)' # RequestState(q2)) => q1 = q2]_vars
\* a plan_trip request has returned its plan while another request was
\* between two awaits: a compare_destinations of two destinations, still
\* running, whose first branch has made its two draws and whose second branch
\* has made none
C18_Witness ==
    /\ server = "orchestrator"
    /\ pc[1] = "done" /\ tool[1] = "plan_trip" /\ outcome[1].kind = "result"
    /\ lookups[1]
    /\ pc[2] = "running" /\ tool[2] = "compare_destinations"
    /\ Len(args[2].destinations) = 2
    /\ Len(arrival[2][1]) = 2 /\ Len(arrival[2][2]) = 0

\* the list of scores s is sorted descending by overallScore with every
\* overallScore in 0..100
SortedScoresInRange(s) ==
    /\ \A k \in DOMAIN s : s[k].overallScore >= 0 /\ s[k].overallScore <= 100
    /\ \A k \in DOMAIN s : k + 1 \in DOMAIN s =>
            s[k].overallScore >= s[k + 1].overallScore

\* C21: for every request body with a destinations list, the list returned by
\* POST /api/compare-destinations is sorted descending by overallScore and
\* every overallScore lies in 0..100
C21_HttpComparisonSorted ==
    \A q \in Requests :
        (/\ pc[q] = "done"
         /\ tool[q] = "POST /api/compare-destinations"
         /\ Has(args[q], "destinations"))
        => /\ outcome[q].kind = "http"
           /\ outcome[q].status = 200
           /\ SortedScoresInRange(outcome[q].body)

\* needle occurs in hay at some offset, letters compared without their case
OccursIgnoringCase(hay, needle) ==
    \E off \in 0..(Len(hay) - Len(needle)) :
        \A k \in 1..Len(needle) : ToLowerChar(hay[off + k]) = ToLowerChar(needle[k])

\* the score of the call made of the weather part w (in tenths) and the other
\* three parts
ScoreWithWeatherPart(w) ==
    RoundTenths(w + CostScore(args.hotelCost) + SafetyScore(args.safety2)
                + ActivitiesScore(args.activities))

\* a non-empty weather preference is given and occurs in the current
\* conditions, "Sunny", whatever the case of its letters
PreferenceMatches ==
    /\ Has(args.criteria, "weather")
    /\ args.criteria.weather.v # ""
    /\ OccursIgnoringCase(Chars("Sunny"), Chars(args.criteria.weather.v))

\* C22: the weather part of the score is 30 exactly when a non-empty weather
\* preference is given and occurs, case-insensitively, in the current
\* conditions; with no preference, an empty one or no match it is 20
C22_WeatherComponent ==
    (Done("calculateOverallScore")
     /\ (Has(args.criteria, "weather") => args.criteria.weather.t = "string"))
        => outcome = Result(ScoreWithWeatherPart(
                                IF PreferenceMatches THEN 300 ELSE 200))
\* a preference written in capitals matched, another did not, for the same
\* other parts: here the call with "SUN" that scored 30 for the weather
C22_Witness ==
    /\ Done("calculateOverallScore")
    /\ Has(args.criteria, "weather") /\ args.criteria.weather.v = "SUN"
    /\ outcome = Result(ScoreWithWeatherPart(300))
    /\ outcome # Result(ScoreWithWeatherPart(200))

\* the weather preference of the call, when there is one, is a string
StringPreference ==
    Has(args.criteria, "weather") => args.criteria.weather.t = "string"

\* max(0, 25 - cost / 10) in tenths of a point, written out by cases
CostPartClaimed(cost) == IF cost >= 250 THEN 0 ELSE 250 - cost

\* C23: the cost part of the score is max(0, 25 - averageHotelCost / 10): it
\* lies in 0..25 for every cost >= 0, is strictly decreasing in the cost below
\* 250 and is 0 from 250 on; the score returned is made of that part
C23_CostComponent ==
    (Done("calculateOverallScore") /\ StringPreference)
        => /\ CostScore(args.hotelCost) = CostPartClaimed(args.hotelCost)
           /\ CostScore(args.hotelCost) \in 0..250
           /\ \A c \in 0..MaxCostSteps :
                 (5 * c < args.hotelCost /\ 5 * c < 250)
                    => CostScore(5 * c) > CostScore(args.hotelCost)
           /\ args.hotelCost >= 250 => CostScore(args.hotelCost) = 0
           /\ outcome = Result(RoundTenths(
                  WeatherScore("Sunny", args.criteria)
                  + CostPartClaimed(args.hotelCost)
                  + SafetyScore(args.safety2) + ActivitiesScore(args.activities)))
\* a call with a cost above 250 has returned
C23_Witness ==
    /\ Done("calculateOverallScore")
    /\ args.hotelCost > 250
    /\ args.safety2 = 0 /\ args.activities = 0 /\ ~Has(args.criteria, "weather")
    /\ outcome = Result(20)

\* min(5 * n, 20) in tenths of a point, written out by cases
ActivitiesPartClaimed(n) == IF n >= 4 THEN 200 ELSE 50 * n

\* C24: the activities part of the score is min(5 * n, 20) for n activities:
\* it never decreases as n grows and is 20 from n = 4 on; the score returned
\* is made of that part
C24_ActivitiesComponent ==
    (Done("calculateOverallScore") /\ StringPreference)
        => /\ ActivitiesScore(args.activities) = ActivitiesPartClaimed(args.activities)
           /\ \A n \in 0..MaxActivities :
                 n <= args.activities
                    => ActivitiesScore(n) <= ActivitiesScore(args.activities)
           /\ args.activities >= 4 => ActivitiesScore(args.activities) = 200
           /\ outcome = Result(RoundTenths(
                  WeatherScore("Sunny", args.criteria) + CostScore(args.hotelCost)
                  + SafetyScore(args.safety2)
                  + ActivitiesPartClaimed(args.activities)))
\* a call with more than four activities has returned with 20 points for them
C24_Witness ==
    /\ Done("calculateOverallScore")
    /\ args.activities > 4
    /\ args.hotelCost >= 250 /\ args.safety2 = 0 /\ ~Has(args.criteria, "weather")
    /\ outcome = Result(40)

\* the lookups of planTrip that have been started and have not completed
InFlight ==
    {k \in 1..Len(lookups) : PlanLocalNames[k] \notin DOMAIN locals}

\* C25: in plan_trip no lookup waits for the completion of another before it
\* is started: while the plan is being made, every lookup that has not
\* completed is in flight
C25_LookupsLaunchedTogether ==
    (server = "orchestrator" /\ pc = "running" /\ tool = "plan_trip")
        => \A k \in DOMAIN PlanLookups :
              PlanLocalNames[k] \notin DOMAIN locals => k \in InFlight
\* at most one lookup of planTrip is in flight at any time
C25_OneLookupAtATime ==
    (server = "orchestrator" /\ pc = "running" /\ tool = "plan_trip")
        => Cardinality(InFlight) = 1

\* the tools that run one branch per destination and join them
FanOutTools ==
    {"compare_destinations", "compare_destination_weather",
     "get_travel_budget_conversion"}

\* C26: a multi-destination aggregation produces its response only after every
\* branch of a destination has settled, and no branch is dropped from it: the
\* result has one entry for each destination asked for
C26_JoinWaitsForAllBranches ==
    (tool \in FanOutTools /\ Returned(tool)) =>
        /\ \A i \in DOMAIN args.destinations :
              \E k \in DOMAIN arrival : arrival[k].i = i
        /\ Len(outcome.value) = Len(args.destinations)
        /\ \A i \in DOMAIN args.destinations :
              \E k \in DOMAIN outcome.value :
                  /\ Has(outcome.value[k], "destination")
                  /\ outcome.value[k].destination = args.destinations[i]
\* in a budget conversion of two destinations the branch of the first was the
\* last to settle, after the request of the other had failed, and its
\* converted budget is in the response
C26_Witness ==
    /\ Returned("get_travel_budget_conversion")
    /\ Len(args.destinations) = 2
    /\ arrival[1].i = 2 /\ arrival[1].resp.kind = "error"
    /\ arrival[2].i = 1 /\ arrival[2].resp.kind = "ok"
    /\ Has(outcome.value[1], "budgetInLocalCurrency")
    /\ Has(outcome.value[2], "error")

\* C27: every provider call carries its own timeout, so every tool call
\* eventually returns even when an upstream service never responds
C27_EveryCallReturns == (pc = "running") ~> (pc = "done")
\* on the servers whose axios instance has a timeout, and in the
\* orchestrator, every tool call eventually returns
C27_TimedCallsReturn ==
    (pc = "running" /\ server # "weather") ~> (pc = "done")

\* C28: in all four servers no tool call ends in the soft-error result of the
\* dispatcher: an AxiosError raised in a handler is thrown again as an
\* McpError or becomes the placeholder of its destination before it reaches
\* the catch of the dispatcher, so a call ends in a result or a thrown error
C28_NoSoftError ==
    pc = "done" => outcome.kind \in {"result", "McpError", "TypeError"}
\* a request of convert_currency failed and the call ended in an McpError
C28_Witness ==
    /\ Done("convert_currency")
    /\ arrival # <<>> /\ arrival[1].resp.kind = "error"
    /\ outcome.kind = "McpError" /\ outcome.code = "InternalError"

\* C29: with the orchestrator's own data (conditions always "Sunny", hotel
\* cost an integer in 100..199, safety rating 4 or 5, at most 3 activities)
\* every overallScore of compare_destinations lies in 45..85, so 100 is never
\* reached
C29_OrchestratorScoreRange ==
    Done("compareDestinations branch")
        => /\ outcome.kind = "result"
           /\ outcome.value.weather.conditions = "Sunny"
           /\ outcome.value.averageHotelCost \in 100..199
           /\ outcome.value.safetyRating \in {4, 5}
           /\ outcome.value.activityScore \in 0..3
           /\ outcome.value.overallScore \in 45..85
\* the highest score is reached: matching weather, cost 100, safety 5 and all
\* three activities
C29_Witness ==
    /\ Done("compareDestinations branch")
    /\ args.hotelCost = 100 /\ args.safety = 5
    /\ outcome.kind = "result"
    /\ outcome.value.activityScore = 3
    /\ outcome.value.overallScore = 85
\* the lowest score is reached: no matching weather, cost 199, safety 4 and no
\* activity left
C29_LowestScore ==
    /\ Done("compareDestinations branch")
    /\ args.hotelCost = 199 /\ args.safety = 4
    /\ outcome.kind = "result"
    /\ outcome.value.activityScore = 0
    /\ outcome.value.overallScore = 45

\* the registry r is the beginning of the registry t
GrownFrom(r, t) == Len(r) <= Len(t) /\ SubSeq(t, 1, Len(r)) = r

\* what holds of the registry in every state of the web server
RegistryState ==
    /\ pc = "created" => mcpServers = <<>>
    /\ pc = "listening" => mcpServers = StartedServers
    /\ outcome.kind = "http" => outcome.body.servers = StartedServers
    /\ pc = "exited" => lookups = mcpServers

\* C30: the registry of sub-processes only grows: it is empty before the
\* server listens, holds the four server names once startMCPServers has run,
\* keeps the entry of a sub-process that has exited, so that GET /api/health
\* goes on listing it, and on SIGTERM kill is called for every entry before
\* the process exits
C30_RegistryOnlyGrows ==
    [](RegistryState) /\ [][GrownFrom(mcpServers, mcpServers')]_vars
\* GET /api/health has listed the four servers after two of them had exited,
\* and SIGTERM has then called kill for all four
C30_Witness ==
    /\ server = "http" /\ pc = "exited"
    /\ DOMAIN locals = Range(StartedServers)
    /\ locals["weather-server"].state = "exited"
    /\ locals["currency-server"].state = "exited"
    /\ outcome.kind = "http" /\ outcome.body.servers = StartedServers
    /\ lookups = StartedServers
====
